---- MODULE Spec2Model ----
(***************************************************************************)
(* A model of the Slack MCP server's message composition tools             *)
(* (slack_mcp/server.py): the BlockKitBuilder factory, the composer tools  *)
(* built on it, and the SlackClient they hand their result to.             *)
(*                                                                         *)
(* Representation.  A Python str is a sequence of characters; a character  *)
(* is a TLA+ string, and a fixed text of the program that no operation     *)
(* looks inside (an error message, a prompt, an emoji) is one such         *)
(* character.  Every Python value is a record tagged with its type t: a    *)
(* str has its characters in s, an int or bool its number in n, a list its *)
(* elements in items, a dict its keys (in insertion order) in keys and     *)
(* their values in items.  A dict built by the block factory is a TLA+     *)
(* record.  JSON text is a sequence of lexical tokens.                     *)
(***************************************************************************)
EXTENDS Integers, Sequences, FiniteSets, TLC

VARIABLES
    calls,      \* per caller: the position and locals of its tool call
    platform,   \* sys.platform
    keyring_ok, \* whether keyring.get_keyring() succeeds
    keychain,   \* the OS secret store: credential key -> value or None
    environ,    \* os.environ: variable name -> value or None
    factory,    \* what a direct user of BlockKitBuilder has got from it
    setup       \* the setup program (slack_mcp/setup.py): position and locals

vars == <<calls, platform, keyring_ok, keychain, environ, factory, setup>>

(***************************************************************************)
(* Bounds                                                                  *)
(***************************************************************************)
NumCallers == 2
MaxItemsLen == 3
MaxFieldsLen == 2

Callers == 1..NumCallers
MainCaller == CHOOSE c \in Callers : \A d \in Callers : c <= d

(***************************************************************************)
(* Python values                                                           *)
(***************************************************************************)
PValue(t, s, n, items, keys) ==
    [t |-> t, s |-> s, n |-> n, items |-> items, keys |-> keys]

PStr(s) == PValue("str", s, 0, <<>>, <<>>)
PNone == PValue("NoneType", <<>>, 0, <<>>, <<>>)
PBool(b) == PValue("bool", <<>>, IF b THEN 1 ELSE 0, <<>>, <<>>)
PInt(n) == PValue("int", <<>>, n, <<>>, <<>>)
PList(l) == PValue("list", <<>>, 0, l, <<>>)
PDict(keys, values) == PValue("dict", <<>>, 0, values, keys)

\* bool(x), as used by "if x:", "x or y", "not x"
Truthy(x) ==
    CASE x.t = "str" -> x.s # <<>>
      [] x.t = "NoneType" -> FALSE
      [] x.t = "bool" -> x.n # 0
      [] x.t = "int" -> x.n # 0
      [] x.t = "list" -> x.items # <<>>
      [] x.t = "dict" -> x.keys # <<>>

\* x or y
Or(x, y) == IF Truthy(x) THEN x ELSE y

\* the characters str.strip() removes
Whitespace == {" ", "\n", "\t", "\r"}

RECURSIVE lstrip(_)
lstrip(s) ==
    IF s # <<>> /\ Head(s) \in Whitespace THEN lstrip(Tail(s)) ELSE s

RECURSIVE rstrip(_)
rstrip(s) ==
    IF s # <<>> /\ s[Len(s)] \in Whitespace
    THEN rstrip(SubSeq(s, 1, Len(s) - 1))
    ELSE s

\* s.strip()
strip(s) == rstrip(lstrip(s))

\* s.split(sep) for a one-character separator: scans left to right and cuts
\* at every occurrence, so the result has one more piece than separators
RECURSIVE split_from(_, _, _, _)
split_from(s, sep, i, piece) ==
    IF i > Len(s) THEN <<piece>>
    ELSE IF s[i] = sep THEN <<piece>> \o split_from(s, sep, i + 1, <<>>)
    ELSE split_from(s, sep, i + 1, Append(piece, s[i]))

split(s, sep) == split_from(s, sep, 1, <<>>)

\* sep.join(parts)
RECURSIVE join(_, _)
join(sep, parts) ==
    IF parts = <<>> THEN <<>>
    ELSE IF Len(parts) = 1 THEN parts[1]
    ELSE parts[1] \o sep \o join(sep, Tail(parts))

\* sub in s, for a one-character sub
contains(s, ch) == \E i \in 1..Len(s) : s[i] = ch

\* [f(x) for x in l]
RECURSIVE strip_each(_)
strip_each(l) ==
    IF l = <<>> THEN <<>> ELSE <<strip(Head(l))>> \o strip_each(Tail(l))

\* [x.strip() for x in l if x.strip()]
RECURSIVE strip_nonempty(_)
strip_nonempty(l) ==
    IF l = <<>> THEN <<>>
    ELSE IF strip(Head(l)) # <<>>
    THEN <<strip(Head(l))>> \o strip_nonempty(Tail(l))
    ELSE strip_nonempty(Tail(l))

\* str.lower() on the letters the model uses
LowerChar(ch) ==
    CASE ch = "S" -> "s" [] ch = "U" -> "u" [] ch = "C" -> "c"
      [] ch = "E" -> "e" [] ch = "W" -> "w" [] ch = "A" -> "a"
      [] ch = "R" -> "r" [] ch = "N" -> "n" [] ch = "I" -> "i"
      [] ch = "G" -> "g" [] ch = "O" -> "o" [] ch = "F" -> "f"
      [] ch = "Y" -> "y"
      [] OTHER -> ch

lower(s) == [i \in 1..Len(s) |-> LowerChar(s[i])]

\* all strs over an alphabet of at most n characters
StrsUpTo(alphabet, n) == UNION {[1..k -> alphabet] : k \in 0..n}

(***************************************************************************)
(* JSON text, json.loads and json.dumps                                    *)
(***************************************************************************)
TPunct(p) == [k |-> "punct", s |-> <<p>>, n |-> 0]
TStr(s) == [k |-> "string", s |-> s, n |-> 0]
TNum(n) == [k |-> "number", s |-> <<>>, n |-> n]
TLit(w) == [k |-> "literal", s |-> <<w>>, n |-> 0]
TBad(w) == [k |-> "bad", s |-> <<w>>, n |-> 0]

IsPunct(toks, i, p) ==
    i <= Len(toks) /\ toks[i].k = "punct" /\ toks[i].s = <<p>>

\* d[key] = value on a dict
DictSet(d, key, value) ==
    IF \E i \in 1..Len(d.keys) : d.keys[i] = key
    THEN PDict(d.keys, [i \in 1..Len(d.keys) |->
                          IF d.keys[i] = key THEN value ELSE d.items[i]])
    ELSE PDict(Append(d.keys, key), Append(d.items, value))

\* key in d
HasKey(d, key) == \E i \in 1..Len(d.keys) : d.keys[i] = key

\* d[key], for a key in d
Lookup(d, key) == d.items[CHOOSE i \in 1..Len(d.keys) : d.keys[i] = key]

ParseOk(val, next) == [ok |-> TRUE, val |-> val, next |-> next, msg |-> <<>>]

\* str(json.JSONDecodeError): the position is counted in tokens
ParseErr(what, i) ==
    [ok |-> FALSE, val |-> PNone, next |-> i,
     msg |-> <<what, ": line 1 column ", ToString(i),
               " (char ", ToString(i - 1), ")">>]

RECURSIVE parse_value(_, _), parse_array(_, _, _), parse_object(_, _, _)

parse_value(toks, i) ==
    IF i > Len(toks) THEN ParseErr("Expecting value", i)
    ELSE LET tok == toks[i] IN
        CASE tok.k = "string" -> ParseOk(PStr(tok.s), i + 1)
          [] tok.k = "number" -> ParseOk(PInt(tok.n), i + 1)
          [] tok.k = "literal" ->
                ParseOk(IF tok.s = <<"null">> THEN PNone
                        ELSE PBool(tok.s = <<"true">>),
                        i + 1)
          [] IsPunct(toks, i, "[") ->
                IF IsPunct(toks, i + 1, "]")
                THEN ParseOk(PList(<<>>), i + 2)
                ELSE parse_array(toks, i + 1, <<>>)
          [] IsPunct(toks, i, "{") ->
                IF IsPunct(toks, i + 1, "}")
                THEN ParseOk(PDict(<<>>, <<>>), i + 2)
                ELSE parse_object(toks, i + 1, PDict(<<>>, <<>>))
          [] OTHER -> ParseErr("Expecting value", i)

parse_array(toks, i, acc) ==
    LET r == parse_value(toks, i) IN
    IF ~r.ok THEN r
    ELSE IF IsPunct(toks, r.next, ",")
    THEN parse_array(toks, r.next + 1, Append(acc, r.val))
    ELSE IF IsPunct(toks, r.next, "]")
    THEN ParseOk(PList(Append(acc, r.val)), r.next + 1)
    ELSE ParseErr("Expecting ',' delimiter", r.next)

parse_object(toks, i, acc) ==
    IF ~(i <= Len(toks) /\ toks[i].k = "string")
    THEN ParseErr("Expecting property name enclosed in double quotes", i)
    ELSE IF ~IsPunct(toks, i + 1, ":")
    THEN ParseErr("Expecting ':' delimiter", i + 1)
    ELSE LET r == parse_value(toks, i + 2)
             d == DictSet(acc, toks[i].s, r.val)
         IN IF ~r.ok THEN r
            ELSE IF IsPunct(toks, r.next, ",")
            THEN parse_object(toks, r.next + 1, d)
            ELSE IF IsPunct(toks, r.next, "}")
            THEN ParseOk(d, r.next + 1)
            ELSE ParseErr("Expecting ',' delimiter", r.next)

\* json.loads(text): one value, then the end of the text
json_loads(text) ==
    LET r == parse_value(text, 1) IN
    IF r.ok /\ r.next <= Len(text) THEN ParseErr("Extra data", r.next) ELSE r

RECURSIVE json_dumps(_), dumps_list(_), dumps_dict(_, _)

\* json.dumps(value)
json_dumps(x) ==
    CASE x.t = "str" -> <<TStr(x.s)>>
      [] x.t = "NoneType" -> <<TLit("null")>>
      [] x.t = "bool" -> <<TLit(IF x.n # 0 THEN "true" ELSE "false")>>
      [] x.t = "int" -> <<TNum(x.n)>>
      [] x.t = "list" -> <<TPunct("[")>> \o dumps_list(x.items) \o <<TPunct("]")>>
      [] x.t = "dict" ->
            <<TPunct("{")>> \o dumps_dict(x.keys, x.items) \o <<TPunct("}")>>

dumps_list(l) ==
    IF l = <<>> THEN <<>>
    ELSE IF Len(l) = 1 THEN json_dumps(l[1])
    ELSE json_dumps(l[1]) \o <<TPunct(",")>> \o dumps_list(Tail(l))

dumps_dict(keys, values) ==
    IF keys = <<>> THEN <<>>
    ELSE LET item == <<TStr(keys[1]), TPunct(":")>> \o json_dumps(values[1])
         IN IF Len(keys) = 1 THEN item
            ELSE item \o <<TPunct(",")>> \o dumps_dict(Tail(keys), Tail(values))

\* d.get(key, default)
Get(d, key, default) == IF HasKey(d, key) THEN Lookup(d, key) ELSE default

\* str(x) for the values that reach an f-string
str(x) ==
    CASE x.t = "str" -> x.s
      [] x.t = "NoneType" -> <<"None">>
      [] x.t = "bool" -> <<IF x.n # 0 THEN "True" ELSE "False">>
      [] x.t = "int" -> <<ToString(x.n)>>
      [] OTHER -> <<"<repr>">>

(***************************************************************************)
(* BlockKitBuilder                                                         *)
(***************************************************************************)
\* header giving again what the last call of header gave
header_remembered(text) ==
    IF factory.last.fn = "header" THEN factory.last.result[1]
    ELSE [type |-> "header", text |-> [type |-> "plain_text", text |-> text]]

header(text) ==
    [type |-> "header", text |-> [type |-> "plain_text", text |-> text]]

section(text) ==
    [type |-> "section", text |-> [type |-> "mrkdwn", text |-> text]]

divider == [type |-> "divider"]

\* [{"type": "mrkdwn", "text": t} for t in texts]
RECURSIVE mrkdwn_each(_)
mrkdwn_each(texts) ==
    IF texts = <<>> THEN <<>>
    ELSE <<[type |-> "mrkdwn", text |-> Head(texts)]>> \o mrkdwn_each(Tail(texts))

fields_section(fields) ==
    [type |-> "section", fields |-> mrkdwn_each(fields)]

context(elements) ==
    [type |-> "context", elements |-> mrkdwn_each(elements)]

\* x[key] for a str key: the value, or the exception Python raises
Subscript(x, key) ==
    CASE x.t = "dict" ->
            IF HasKey(x, key)
            THEN [ok |-> TRUE, val |-> Lookup(x, key), msg |-> <<>>]
            ELSE [ok |-> FALSE, val |-> PNone, msg |-> <<"'">> \o key \o <<"'">>]
      [] x.t = "str" ->
            [ok |-> FALSE, val |-> PNone,
             msg |-> <<"string indices must be integers, not 'str'">>]
      [] x.t = "list" ->
            [ok |-> FALSE, val |-> PNone,
             msg |-> <<"list indices must be integers or slices, not str">>]
      [] OTHER ->
            [ok |-> FALSE, val |-> PNone,
             msg |-> <<"'", x.t, "' object is not subscriptable">>]

\* "for e in x": the elements visited, or the exception Python raises
Iterate(x) ==
    CASE x.t = "list" -> [ok |-> TRUE, items |-> x.items, msg |-> <<>>]
      [] x.t = "dict" ->
            [ok |-> TRUE, items |-> [i \in 1..Len(x.keys) |-> PStr(x.keys[i])],
             msg |-> <<>>]
      [] x.t = "str" ->
            [ok |-> TRUE, items |-> [i \in 1..Len(x.s) |-> PStr(<<x.s[i]>>)],
             msg |-> <<>>]
      [] OTHER ->
            [ok |-> FALSE, items |-> <<>>,
             msg |-> <<"'", x.t, "' object is not iterable">>]

\* button keeping whatever style it is given
button_any_style(text, action_id, value, url, style) ==
    LET e0 == [type |-> "button",
               text |-> [type |-> "plain_text", text |-> text],
               action_id |-> action_id]
        e1 == IF Truthy(value) THEN e0 @@ [value |-> value] ELSE e0
        e2 == IF Truthy(url) THEN e1 @@ [url |-> url] ELSE e1
    IN IF Truthy(style) THEN e2 @@ [style |-> style] ELSE e2

button(text, action_id, value, url, style) ==
    LET e0 == [type |-> "button",
               text |-> [type |-> "plain_text", text |-> text],
               action_id |-> action_id]
        e1 == IF Truthy(value) THEN e0 @@ [value |-> value] ELSE e0
        e2 == IF Truthy(url) THEN e1 @@ [url |-> url] ELSE e1
    IN IF style \in {PStr(<<"primary">>), PStr(<<"danger">>)}
       THEN e2 @@ [style |-> style]
       ELSE e2

actions(elements) == [type |-> "actions", elements |-> elements]

\* the list comprehension of select_menu: the options built so far, or the
\* exception option["text"] or option["value"] raises
RECURSIVE select_options_from(_, _)
select_options_from(options, acc) ==
    IF options = <<>> THEN [ok |-> TRUE, items |-> acc, msg |-> <<>>]
    ELSE LET option == Head(options)
             text == Subscript(option, <<"text">>)
             value == Subscript(option, <<"value">>)
         IN IF ~text.ok THEN [ok |-> FALSE, items |-> acc, msg |-> text.msg]
            ELSE IF ~value.ok
            THEN [ok |-> FALSE, items |-> acc, msg |-> value.msg]
            ELSE select_options_from(Tail(options),
                    Append(acc, [text |-> [type |-> "plain_text", text |-> text.val],
                                 value |-> value.val]))

\* select_menu offering the first option only
select_menu_first_option(placeholder, action_id, options) ==
    LET it == Iterate(options)
        built == select_options_from(it.items, <<>>)
    IN IF ~it.ok THEN [ok |-> FALSE, val |-> PNone, msg |-> it.msg]
       ELSE IF ~built.ok THEN [ok |-> FALSE, val |-> PNone, msg |-> built.msg]
       ELSE [ok |-> TRUE, msg |-> <<>>,
             val |-> [type |-> "static_select",
                      placeholder |-> [type |-> "plain_text", text |-> placeholder],
                      action_id |-> action_id,
                      options |-> IF built.items = <<>> THEN <<>>
                                  ELSE <<Head(built.items)>>]]

\* select_menu: [ok |-> TRUE, val |-> the element] or the exception raised
select_menu(placeholder, action_id, options) ==
    LET it == Iterate(options)
        built == select_options_from(it.items, <<>>)
    IN IF ~it.ok THEN [ok |-> FALSE, val |-> PNone, msg |-> it.msg]
       ELSE IF ~built.ok THEN [ok |-> FALSE, val |-> PNone, msg |-> built.msg]
       ELSE [ok |-> TRUE, msg |-> <<>>,
             val |-> [type |-> "static_select",
                      placeholder |-> [type |-> "plain_text", text |-> placeholder],
                      action_id |-> action_id,
                      options |-> built.items]]

section_with_accessory(text, accessory) ==
    [type |-> "section", text |-> [type |-> "mrkdwn", text |-> text],
     accessory |-> accessory]

\* the fence of three backquotes
Fence == <<"backquote", "backquote", "backquote">>

\* code_block with the newline written whether or not a language is named
code_block_always_newline(code, language) ==
    section(PStr(Fence
                 \o (IF Truthy(language) THEN language.s ELSE <<>>) \o <<"\n">>
                 \o code.s \o Fence))

\* f"{fence}{language + chr(10) if language else ''}{code}{fence}"
code_block(code, language) ==
    section(PStr(Fence
                 \o (IF Truthy(language) THEN language.s \o <<"\n">> ELSE <<>>)
                 \o code.s \o Fence))

\* BlockKitBuilder.section with its text_type given
section_of_type(text, text_type) ==
    [type |-> "section", text |-> [type |-> text_type, text |-> text]]

\* image with the title key written whether or not a title is given
image_title_always(image_url, alt_text, title) ==
    [type |-> "image", image_url |-> image_url, alt_text |-> alt_text,
     title |-> [type |-> "plain_text", text |-> title]]

\* title is None when the caller leaves it out
image(image_url, alt_text, title) ==
    LET block == [type |-> "image", image_url |-> image_url, alt_text |-> alt_text]
    IN IF Truthy(title)
       THEN [type |-> "image", image_url |-> image_url, alt_text |-> alt_text,
             title |-> [type |-> "plain_text", text |-> title]]
       ELSE block

\* f">{text}"
quote_block(text) == section(PStr(<<">">> \o text.s))

rich_text_block(elements) == [type |-> "rich_text", elements |-> elements]

rich_text_section(elements) == [type |-> "rich_text_section", elements |-> elements]

RECURSIVE rich_text_items(_)
rich_text_items(items) ==
    IF items = <<>> THEN <<>>
    ELSE <<[type |-> "rich_text_section",
            elements |-> <<[type |-> "text", text |-> Head(items)]>>]>>
         \o rich_text_items(Tail(items))

rich_text_list(items, style) ==
    [type |-> "rich_text_list", style |-> style, elements |-> rich_text_items(items)]

(***************************************************************************)
(* Credentials (slack_mcp/credentials.py)                                  *)
(***************************************************************************)
CredentialKeys == {"api_token", "workspace_id", "app_token", "signing_secret"}

\* f"SLACK_{key.upper()}"
EnvKey(key) ==
    CASE key = "api_token" -> "SLACK_API_TOKEN"
      [] key = "workspace_id" -> "SLACK_WORKSPACE_ID"
      [] key = "app_token" -> "SLACK_APP_TOKEN"
      [] key = "signing_secret" -> "SLACK_SIGNING_SECRET"

EnvNames == {EnvKey(key) : key \in CredentialKeys}

\* CredentialManager._ensure_keychain_available raises RuntimeError
KeychainUnavailable == platform = "darwin" /\ ~keyring_ok

KeychainFailedMsg ==
    <<"Keychain access failed. Please ensure your macOS keychain is unlocked.">>

get_credential(key) ==
    IF platform = "darwin"
    THEN IF Truthy(keychain[key]) THEN keychain[key] ELSE PNone
    ELSE environ[EnvKey(key)]

get_all_credentials == [key \in CredentialKeys |-> get_credential(key)]

get_slack_credentials == get_all_credentials

(***************************************************************************)
(* SlackClient                                                             *)
(***************************************************************************)
\* a client that prefers the environment variable to the stored token
SlackClient_environment_first ==
    LET credentials == get_slack_credentials IN
    [api_token |-> Or(environ["SLACK_API_TOKEN"], credentials["api_token"]),
     workspace_id |->
        Or(credentials["workspace_id"], environ["SLACK_WORKSPACE_ID"])]

\* SlackClient.__init__: the attributes of the constructed client
SlackClient ==
    LET credentials == get_slack_credentials IN
    [api_token |-> Or(credentials["api_token"], environ["SLACK_API_TOKEN"]),
     workspace_id |->
        Or(credentials["workspace_id"], environ["SLACK_WORKSPACE_ID"])]

validate_config(client) == Truthy(client.api_token)

TokenNotConfiguredMsg ==
    <<"Slack API token not configured. Use 'python -m slack_mcp.setup' to configure credentials.">>

\* SlackClient.send_message: the request it passes to _make_request
\* send_message posting the blocks in reverse order
SlackClient_send_message_reversing(channel, text, thread_ts, blocks) ==
    LET d0 == [channel |-> channel, text |-> text]
        d1 == IF Truthy(thread_ts) THEN d0 @@ [thread_ts |-> thread_ts] ELSE d0
        n == Len(blocks.items)
        reversed == [blocks EXCEPT !.items = [i \in 1..n |-> blocks.items[n + 1 - i]]]
        data == IF Truthy(blocks) THEN d1 @@ [blocks |-> reversed] ELSE d1
    IN [method |-> "POST", endpoint |-> "chat.postMessage", json_data |-> data]

SlackClient_send_message(channel, text, thread_ts, blocks) ==
    LET d0 == [channel |-> channel, text |-> text]
        d1 == IF Truthy(thread_ts) THEN d0 @@ [thread_ts |-> thread_ts] ELSE d0
        data == IF Truthy(blocks) THEN d1 @@ [blocks |-> blocks] ELSE d1
    IN [method |-> "POST", endpoint |-> "chat.postMessage", json_data |-> data]

SlackClient_update_message(channel, ts, text, blocks) ==
    LET d0 == [channel |-> channel, ts |-> ts, text |-> text]
        data == IF Truthy(blocks) THEN d0 @@ [blocks |-> blocks] ELSE d0
    IN [method |-> "POST", endpoint |-> "chat.update", json_data |-> data]

(***************************************************************************)
(* A tool call.  A handler runs without interruption from its first        *)
(* statement to "await client.request(...)" in _make_request, and again    *)
(* from the arrival of the response to its return.                         *)
(***************************************************************************)
NoResult == <<>>

IdleCall ==
    [pc |-> "idle", tool |-> "none", args |-> <<>>, blocks |-> <<>>,
     clients |-> 0, sent |-> <<>>, http |-> <<>>, raised |-> "none",
     result |-> NoResult]

\* {"error": message}
ErrorObject(msg) == PDict(<< <<"error">> >>, <<PStr(msg)>>)

\* json.dumps({"error": str(e)}, indent=2)
ErrorResult(msg) == json_dumps(ErrorObject(msg))

\* what the body of a handler does before it constructs the client
Return(value, blocks) ==
    [kind |-> "return", blocks |-> blocks, value |-> value, msg |-> <<>>,
     channel |-> PNone, text |-> PNone, thread_ts |-> PNone]

\* a handler that, when a step fails, sends what it has built so far
Raise_sending_built(msg, blocks) ==
    [kind |-> "send", blocks |-> blocks, value |-> PNone, msg |-> <<>>,
     channel |-> PStr(<<"C123">>), text |-> PStr(msg), thread_ts |-> PNone]

Raise(msg, blocks) ==
    [kind |-> "raise", blocks |-> blocks, value |-> PNone, msg |-> msg,
     channel |-> PNone, text |-> PNone, thread_ts |-> PNone]

Send(channel, text, thread_ts, blocks) ==
    [kind |-> "send", blocks |-> blocks, value |-> PNone, msg |-> <<>>,
     channel |-> channel, text |-> text, thread_ts |-> thread_ts]

\* the handler from its entry to its first suspension or its return:
\* client = SlackClient(); result = await client.send_message(...)
RunToAwait(toolname, a, st) ==
    LET base == [IdleCall EXCEPT !.tool = toolname, !.args = a,
                                 !.blocks = st.blocks, !.pc = "done"]
        invocation == [channel |-> st.channel, text |-> st.text,
                       thread_ts |-> st.thread_ts, blocks |-> PList(st.blocks)]
        request == SlackClient_send_message(st.channel, st.text, st.thread_ts,
                                            PList(st.blocks))
    IN CASE st.kind = "return" ->
              [base EXCEPT !.result = json_dumps(st.value)]
         [] st.kind = "raise" ->
              [base EXCEPT !.raised = "compose", !.result = ErrorResult(st.msg)]
         [] st.kind = "send" ->
              IF KeychainUnavailable
              THEN [base EXCEPT !.raised = "client_init",
                                !.result = ErrorResult(KeychainFailedMsg)]
              ELSE IF ~validate_config(SlackClient)
              THEN [base EXCEPT !.clients = 1, !.sent = <<invocation>>,
                                !.raised = "make_request",
                                !.result = ErrorResult(TokenNotConfiguredMsg)]
              ELSE [base EXCEPT !.clients = 1, !.sent = <<invocation>>,
                                !.http = <<request
                                           @@ [token |-> SlackClient.api_token]>>,
                                !.pc = "awaiting"]

\* the send_message and update_message tools build the client first:
\* client = SlackClient(); blocks_data = json.loads(blocks) if blocks else
\* None; result = await client.send_message(...).  st.invocation holds what
\* the client method is called with, st.request what it hands to
\* _make_request.
RunClientFirst(toolname, a, st) ==
    LET base == [IdleCall EXCEPT !.tool = toolname, !.args = a, !.pc = "done"]
    IN IF KeychainUnavailable
       THEN [base EXCEPT !.raised = "client_init",
                         !.result = ErrorResult(KeychainFailedMsg)]
       ELSE IF st.kind = "raise"
       THEN [base EXCEPT !.clients = 1, !.raised = "compose",
                         !.result = ErrorResult(st.msg)]
       ELSE IF ~validate_config(SlackClient)
       THEN [base EXCEPT !.clients = 1, !.sent = st.invocation,
                         !.raised = "make_request",
                         !.result = ErrorResult(TokenNotConfiguredMsg)]
       ELSE [base EXCEPT !.clients = 1, !.sent = st.invocation,
                         !.http = <<st.request[1]
                                    @@ [token |-> SlackClient.api_token]>>,
                         !.pc = "awaiting"]

\* _make_request sending the request once more when the connection fails
Resume_retrying(call, outcome) ==
    LET done == [call EXCEPT !.pc = "done"]
        parsed == json_loads(outcome.body)
        data == parsed.val
    IN IF outcome.kind = "exception" /\ Len(call.sent) < 2
       THEN [call EXCEPT !.sent = Append(call.sent, call.sent[1]),
                         !.http = Append(call.http, call.http[1])]
       ELSE IF outcome.kind = "exception"
       THEN [done EXCEPT !.raised = "http", !.result = ErrorResult(outcome.msg)]
       ELSE IF ~parsed.ok
       THEN [done EXCEPT !.raised = "response_json",
                         !.result = ErrorResult(parsed.msg)]
       ELSE IF data.t # "dict"
       THEN [done EXCEPT !.raised = "response_get",
                         !.result = ErrorResult(
                            <<"'", data.t, "' object has no attribute 'get'">>)]
       ELSE IF ~Truthy(Get(data, <<"ok">>, PBool(FALSE)))
       THEN [done EXCEPT !.raised = "api_error",
                         !.result = ErrorResult(
                            <<"Slack API error: ">>
                            \o str(Get(data, <<"error">>, PStr(<<"Unknown error">>))))]
       ELSE [done EXCEPT !.result = json_dumps(data)]

\* _make_request from the arrival of the response, and the handler's return
Resume(call, outcome) ==
    LET done == [call EXCEPT !.pc = "done"]
        parsed == json_loads(outcome.body)
        data == parsed.val
    IN IF outcome.kind = "exception"
       THEN [done EXCEPT !.raised = "http", !.result = ErrorResult(outcome.msg)]
       ELSE IF ~parsed.ok
       THEN [done EXCEPT !.raised = "response_json",
                         !.result = ErrorResult(parsed.msg)]
       ELSE IF data.t # "dict"
       THEN [done EXCEPT !.raised = "response_get",
                         !.result = ErrorResult(
                            <<"'", data.t, "' object has no attribute 'get'">>)]
       ELSE IF ~Truthy(Get(data, <<"ok">>, PBool(FALSE)))
       THEN [done EXCEPT !.raised = "api_error",
                         !.result = ErrorResult(
                            <<"Slack API error: ">>
                            \o str(Get(data, <<"error">>, PStr(<<"Unknown error">>))))]
       ELSE [done EXCEPT !.result = json_dumps(data)]

\* the outcomes of client.request(...): an httpx exception or a response body
HttpException(msg) == [kind |-> "exception", msg |-> msg, body |-> <<>>]
HttpResponse(body) == [kind |-> "response", msg |-> <<>>, body |-> body]

BodyOk ==
    <<TPunct("{"), TStr(<<"ok">>), TPunct(":"), TLit("true"), TPunct(","),
      TStr(<<"ts">>), TPunct(":"), TStr(<<"123456.789">>), TPunct("}")>>

BodyRejected ==
    <<TPunct("{"), TStr(<<"ok">>), TPunct(":"), TLit("false"), TPunct(","),
      TStr(<<"error">>), TPunct(":"), TStr(<<"channel_not_found">>),
      TPunct("}")>>

BodyNoError == <<TPunct("{"), TStr(<<"ok">>), TPunct(":"), TLit("false"), TPunct("}")>>

BodyNotJson == <<TBad("<html>")>>

BodyNotObject == <<TPunct("["), TPunct("]")>>

HttpOutcomes ==
    {HttpException(<<"All connection attempts failed">>)}
    \cup {HttpResponse(b) : b \in {BodyOk, BodyRejected, BodyNoError,
                                   BodyNotJson, BodyNotObject}}

(***************************************************************************)
(* The composer tools                                                      *)
(***************************************************************************)
NoContentMsg ==
    <<"At least one of title, text, fields, or context must be provided">>

\* [PStr(x) for x in l]
PStrs(l) == [i \in 1..Len(l) |-> PStr(l[i])]

\* send_formatted_message with the context block appended before the fields
send_formatted_message_context_first(a) ==
    LET b0 == <<>>
        b1 == IF Truthy(a.title) THEN Append(b0, header(a.title)) ELSE b0
        b2 == IF Truthy(a.text) THEN Append(b1, section(a.text)) ELSE b1
        field_list == strip_each(split(a.fields.s, ","))
        b3 == IF Truthy(a.context)
              THEN Append(b2, context(<<a.context>>))
              ELSE b2
        b4 == IF Truthy(a.fields)
              THEN Append(b3, fields_section(PStrs(field_list)))
              ELSE b3
        fallback_text == Or(Or(a.title, a.text), PStr(<<"Formatted message">>))
    IN IF b4 = <<>>
       THEN Return(ErrorObject(NoContentMsg), b4)
       ELSE Send(a.channel, fallback_text, a.thread_ts, b4)

\* send_formatted_message without the "if not blocks" return
send_formatted_message_unguarded(a) ==
    LET b0 == <<>>
        b1 == IF Truthy(a.title) THEN Append(b0, header(a.title)) ELSE b0
        b2 == IF Truthy(a.text) THEN Append(b1, section(a.text)) ELSE b1
        field_list == strip_each(split(a.fields.s, ","))
        b3 == IF Truthy(a.fields)
              THEN Append(b2, fields_section(PStrs(field_list)))
              ELSE b2
        b4 == IF Truthy(a.context)
              THEN Append(b3, context(<<a.context>>))
              ELSE b3
        fallback_text == Or(Or(a.title, a.text), PStr(<<"Formatted message">>))
    IN Send(a.channel, fallback_text, a.thread_ts, b4)

\* send_formatted_message returning the error only when all four inputs are
\* None, instead of when no block was built
send_formatted_message_none_guard(a) ==
    LET b0 == <<>>
        b1 == IF Truthy(a.title) THEN Append(b0, header(a.title)) ELSE b0
        b2 == IF Truthy(a.text) THEN Append(b1, section(a.text)) ELSE b1
        field_list == strip_each(split(a.fields.s, ","))
        b3 == IF Truthy(a.fields)
              THEN Append(b2, fields_section(PStrs(field_list)))
              ELSE b2
        b4 == IF Truthy(a.context)
              THEN Append(b3, context(<<a.context>>))
              ELSE b3
        fallback_text == Or(Or(a.title, a.text), PStr(<<"Formatted message">>))
    IN IF a.title = PNone /\ a.text = PNone /\ a.fields = PNone /\ a.context = PNone
       THEN Return(ErrorObject(NoContentMsg), b4)
       ELSE Send(a.channel, fallback_text, a.thread_ts, b4)

\* send_formatted_message taking the text before the title as fallback
send_formatted_message_text_first(a) ==
    LET b0 == <<>>
        b1 == IF Truthy(a.title) THEN Append(b0, header(a.title)) ELSE b0
        b2 == IF Truthy(a.text) THEN Append(b1, section(a.text)) ELSE b1
        field_list == strip_each(split(a.fields.s, ","))
        b3 == IF Truthy(a.fields)
              THEN Append(b2, fields_section(PStrs(field_list)))
              ELSE b2
        b4 == IF Truthy(a.context)
              THEN Append(b3, context(<<a.context>>))
              ELSE b3
        fallback_text == Or(Or(a.text, a.title), PStr(<<"Formatted message">>))
    IN IF b4 = <<>>
       THEN Return(ErrorObject(NoContentMsg), b4)
       ELSE Send(a.channel, fallback_text, a.thread_ts, b4)

\* send_formatted_message leaving out the fields that are empty once trimmed
send_formatted_message_dropping_empty_fields(a) ==
    LET b0 == <<>>
        b1 == IF Truthy(a.title) THEN Append(b0, header(a.title)) ELSE b0
        b2 == IF Truthy(a.text) THEN Append(b1, section(a.text)) ELSE b1
        field_list == strip_nonempty(split(a.fields.s, ","))
        b3 == IF Truthy(a.fields)
              THEN Append(b2, fields_section(PStrs(field_list)))
              ELSE b2
        b4 == IF Truthy(a.context)
              THEN Append(b3, context(<<a.context>>))
              ELSE b3
        fallback_text == Or(Or(a.title, a.text), PStr(<<"Formatted message">>))
    IN IF b4 = <<>>
       THEN Return(ErrorObject(NoContentMsg), b4)
       ELSE Send(a.channel, fallback_text, a.thread_ts, b4)

send_formatted_message(a) ==
    LET b0 == <<>>
        b1 == IF Truthy(a.title) THEN Append(b0, header(a.title)) ELSE b0
        b2 == IF Truthy(a.text) THEN Append(b1, section(a.text)) ELSE b1
        field_list == strip_each(split(a.fields.s, ","))
        b3 == IF Truthy(a.fields)
              THEN Append(b2, fields_section(PStrs(field_list)))
              ELSE b2
        b4 == IF Truthy(a.context)
              THEN Append(b3, context(<<a.context>>))
              ELSE b3
        fallback_text == Or(Or(a.title, a.text), PStr(<<"Formatted message">>))
    IN IF b4 = <<>>
       THEN Return(ErrorObject(NoContentMsg), b4)
       ELSE Send(a.channel, fallback_text, a.thread_ts, b4)

\* the status table of send_notification_message: status -> emoji
status_config ==
    (<<"s", "u", "c", "c", "e", "s", "s">> :> <<"white_check_mark">>)
    @@ (<<"w", "a", "r", "n", "i", "n", "g">> :> <<"warning_sign">>)
    @@ (<<"e", "r", "r", "o", "r">> :> <<"cross_mark">>)
    @@ (<<"i", "n", "f", "o">> :> <<"information_source">>)

\* send_notification_message looking the status up as it is spelled
send_notification_message_case_sensitive(a) ==
    LET key == a.status.s
        config == IF key \in DOMAIN status_config
                  THEN status_config[key]
                  ELSE status_config[<<"i", "n", "f", "o">>]
        b1 == <<[type |-> "section",
                 text |-> [type |-> "mrkdwn",
                           text |-> PStr(config \o <<" ", "*">> \o a.title.s
                                         \o <<"*", "\n">> \o a.description.s)]]>>
        b2 == IF Truthy(a.details)
              THEN Append(Append(b1, divider), context(<<a.details>>))
              ELSE b1
        fallback_text == PStr(config \o <<" ">> \o a.title.s \o <<":", " ">>
                              \o a.description.s)
    IN Send(a.channel, fallback_text, a.thread_ts, b2)

\* send_notification_message appending the divider whether or not details
\* is given
send_notification_message_always_divider(a) ==
    LET key == lower(a.status.s)
        config == IF key \in DOMAIN status_config
                  THEN status_config[key]
                  ELSE status_config[<<"i", "n", "f", "o">>]
        b1 == <<[type |-> "section",
                 text |-> [type |-> "mrkdwn",
                           text |-> PStr(config \o <<" ", "*">> \o a.title.s
                                         \o <<"*", "\n">> \o a.description.s)]],
                divider>>
        b2 == IF Truthy(a.details)
              THEN Append(b1, context(<<a.details>>))
              ELSE b1
        fallback_text == PStr(config \o <<" ">> \o a.title.s \o <<":", " ">>
                              \o a.description.s)
    IN Send(a.channel, fallback_text, a.thread_ts, b2)

send_notification_message(a) ==
    LET key == lower(a.status.s)
        config == IF key \in DOMAIN status_config
                  THEN status_config[key]
                  ELSE status_config[<<"i", "n", "f", "o">>]
        b1 == <<[type |-> "section",
                 text |-> [type |-> "mrkdwn",
                           text |-> PStr(config \o <<" ", "*">> \o a.title.s
                                         \o <<"*", "\n">> \o a.description.s)]]>>
        b2 == IF Truthy(a.details)
              THEN Append(Append(b1, divider), context(<<a.details>>))
              ELSE b1
        fallback_text == PStr(config \o <<" ">> \o a.title.s \o <<":", " ">>
                              \o a.description.s)
    IN Send(a.channel, fallback_text, a.thread_ts, b2)

\* [f"\u2022 {item}" for item in item_list]
Bulleted(item_list) ==
    [i \in 1..Len(item_list) |-> <<"bullet", " ">> \o item_list[i]]

\* send_list_message cutting at commas whenever items contains a comma
send_list_message_comma_first(a) ==
    LET b1 == <<header(a.title)>>
        b2 == IF Truthy(a.description)
              THEN Append(Append(b1, section(a.description)), divider)
              ELSE b1
        item_list == IF contains(a.items.s, ",")
                     THEN strip_nonempty(split(a.items.s, ","))
                     ELSE strip_nonempty(split(a.items.s, "\n"))
        formatted_items == join(<<"\n">>, Bulleted(item_list))
        b3 == Append(b2, section(PStr(formatted_items)))
        fallback_text == PStr(a.title.s \o <<":", " ">>
                              \o join(<<",", " ">>, item_list))
    IN Send(a.channel, fallback_text, a.thread_ts, b3)

\* send_list_message appending the description section without the divider
send_list_message_without_divider(a) ==
    LET b1 == <<header(a.title)>>
        b2 == IF Truthy(a.description)
              THEN Append(b1, section(a.description))
              ELSE b1
        item_list == IF contains(a.items.s, "\n")
                     THEN strip_nonempty(split(a.items.s, "\n"))
                     ELSE strip_nonempty(split(a.items.s, ","))
        formatted_items == join(<<"\n">>, Bulleted(item_list))
        b3 == Append(b2, section(PStr(formatted_items)))
        fallback_text == PStr(a.title.s \o <<":", " ">>
                              \o join(<<",", " ">>, item_list))
    IN Send(a.channel, fallback_text, a.thread_ts, b3)

\* send_list_message testing its description against None only
send_list_message_none_guard(a) ==
    LET b1 == <<header(a.title)>>
        b2 == IF a.description # PNone
              THEN Append(Append(b1, section(a.description)), divider)
              ELSE b1
        item_list == IF contains(a.items.s, "\n")
                     THEN strip_nonempty(split(a.items.s, "\n"))
                     ELSE strip_nonempty(split(a.items.s, ","))
        formatted_items == join(<<"\n">>, Bulleted(item_list))
        b3 == Append(b2, section(PStr(formatted_items)))
        fallback_text == PStr(a.title.s \o <<":", " ">>
                              \o join(<<",", " ">>, item_list))
    IN Send(a.channel, fallback_text, a.thread_ts, b3)

\* send_list_message refusing a list in which no item survives
send_list_message_requiring_items(a) ==
    LET b1 == <<header(a.title)>>
        b2 == IF Truthy(a.description)
              THEN Append(Append(b1, section(a.description)), divider)
              ELSE b1
        item_list == IF contains(a.items.s, "\n")
                     THEN strip_nonempty(split(a.items.s, "\n"))
                     ELSE strip_nonempty(split(a.items.s, ","))
        formatted_items == join(<<"\n">>, Bulleted(item_list))
        b3 == Append(b2, section(PStr(formatted_items)))
        fallback_text == PStr(a.title.s \o <<":", " ">>
                              \o join(<<",", " ">>, item_list))
    IN IF item_list = <<>>
       THEN Return(ErrorObject(<<"items must not be empty">>), b2)
       ELSE Send(a.channel, fallback_text, a.thread_ts, b3)

send_list_message(a) ==
    LET b1 == <<header(a.title)>>
        b2 == IF Truthy(a.description)
              THEN Append(Append(b1, section(a.description)), divider)
              ELSE b1
        item_list == IF contains(a.items.s, "\n")
                     THEN strip_nonempty(split(a.items.s, "\n"))
                     ELSE strip_nonempty(split(a.items.s, ","))
        formatted_items == join(<<"\n">>, Bulleted(item_list))
        b3 == Append(b2, section(PStr(formatted_items)))
        fallback_text == PStr(a.title.s \o <<":", " ">>
                              \o join(<<",", " ">>, item_list))
    IN Send(a.channel, fallback_text, a.thread_ts, b3)

\* the loop over button_configs: the buttons built, or the exception raised
RECURSIVE button_elements_from(_, _)
button_elements_from(configs, acc) ==
    IF configs = <<>> THEN [ok |-> TRUE, items |-> acc, msg |-> <<>>]
    ELSE LET btn_config == Head(configs)
             text == Subscript(btn_config, <<"text">>)
             action_id == Subscript(btn_config, <<"action_id">>)
         IN IF ~text.ok THEN [ok |-> FALSE, items |-> acc, msg |-> text.msg]
            ELSE IF ~action_id.ok
            THEN [ok |-> FALSE, items |-> acc, msg |-> action_id.msg]
            ELSE button_elements_from(Tail(configs),
                    Append(acc, button(text.val, action_id.val,
                                       Get(btn_config, <<"value">>, PNone),
                                       Get(btn_config, <<"url">>, PNone),
                                       Get(btn_config, <<"style">>, PNone))))

\* send_interactive_message appending the actions block whether or not a
\* button was built
send_interactive_message_always_actions(a) ==
    LET b2 == <<header(a.title), section(a.description)>>
        parsed == json_loads(a.buttons)
        it == Iterate(parsed.val)
        built == button_elements_from(it.items, <<>>)
        b3 == Append(b2, actions(built.items))
        fallback_text == PStr(a.title.s \o <<":", " ">> \o a.description.s)
    IN IF ~parsed.ok THEN Raise(parsed.msg, b2)
       ELSE IF ~it.ok THEN Raise(it.msg, b2)
       ELSE IF ~built.ok THEN Raise(built.msg, b2)
       ELSE Send(a.channel, fallback_text, a.thread_ts, b3)

send_interactive_message(a) ==
    LET b2 == <<header(a.title), section(a.description)>>
        parsed == json_loads(a.buttons)
        it == Iterate(parsed.val)
        built == button_elements_from(it.items, <<>>)
        b3 == IF built.items # <<>> THEN Append(b2, actions(built.items)) ELSE b2
        fallback_text == PStr(a.title.s \o <<":", " ">> \o a.description.s)
    IN IF ~parsed.ok THEN Raise(parsed.msg, b2)
       ELSE IF ~it.ok THEN Raise(it.msg, b2)
       ELSE IF ~built.ok THEN Raise(built.msg, b2)
       ELSE Send(a.channel, fallback_text, a.thread_ts, b3)

\* code[:100]
Prefix(s, n) == SubSeq(s, 1, IF Len(s) < n THEN Len(s) ELSE n)

FallbackCodeLen == 100

\* send_code_snippet with the ellipsis from 100 characters on
send_code_snippet_ellipsis_at_limit(a) ==
    LET b1 == <<header(a.title)>>
        b2 == IF Truthy(a.description) THEN Append(b1, section(a.description)) ELSE b1
        b3 == Append(b2, code_block(a.code, a.language))
        fallback_text ==
            PStr(a.title.s \o <<":", " ">> \o Prefix(a.code.s, FallbackCodeLen)
                 \o (IF Len(a.code.s) >= FallbackCodeLen
                     THEN <<".", ".", ".">> ELSE <<>>))
    IN Send(a.channel, fallback_text, a.thread_ts, b3)

send_code_snippet(a) ==
    LET b1 == <<header(a.title)>>
        b2 == IF Truthy(a.description) THEN Append(b1, section(a.description)) ELSE b1
        b3 == Append(b2, code_block(a.code, a.language))
        fallback_text ==
            PStr(a.title.s \o <<":", " ">> \o Prefix(a.code.s, FallbackCodeLen)
                 \o (IF Len(a.code.s) > FallbackCodeLen
                     THEN <<".", ".", ".">> ELSE <<>>))
    IN Send(a.channel, fallback_text, a.thread_ts, b3)

\* send_form_message taking select_options that do not decode as no options
send_form_message_swallowing(a) ==
    LET b2 == <<header(a.title), section(a.description)>>
        parsed == json_loads(a.select_options)
        options == IF parsed.ok THEN parsed.val ELSE PList(<<>>)
        menu == select_menu(a.select_placeholder, a.select_action_id, options)
        b3 == Append(b2, section_with_accessory(
                            PStr(<<"Please make your selection:">>), menu.val))
        fallback_text == PStr(a.title.s \o <<":", " ">> \o a.description.s)
    IN IF ~menu.ok THEN Raise(menu.msg, b2)
       ELSE Send(a.channel, fallback_text, a.thread_ts, b3)

send_form_message(a) ==
    LET b2 == <<header(a.title), section(a.description)>>
        parsed == json_loads(a.select_options)
        menu == select_menu(a.select_placeholder, a.select_action_id, parsed.val)
        b3 == Append(b2, section_with_accessory(
                            PStr(<<"Please make your selection:">>), menu.val))
        fallback_text == PStr(a.title.s \o <<":", " ">> \o a.description.s)
    IN IF ~parsed.ok THEN Raise(parsed.msg, b2)
       ELSE IF ~menu.ok THEN Raise(menu.msg, b2)
       ELSE Send(a.channel, fallback_text, a.thread_ts, b3)

\* now is the value of datetime.now().strftime('%Y-%m-%d %H:%M') at the call
\* send_announcement writing the date line only for a timestamp it is given
send_announcement_without_clock(a, now) ==
    LET b2 == <<header(PStr(<<"loudspeaker", " ">> \o a.title.s)),
                section(a.message)>>
        e1 == IF Truthy(a.author)
              THEN <<PStr(<<"*", "B", "y", ":", "*", " ">> \o a.author.s)>>
              ELSE <<>>
        e2 == IF Truthy(a.timestamp)
              THEN Append(e1, PStr(<<"*", "D", "a", "t", "e", ":", "*", " ">>
                                   \o a.timestamp.s))
              ELSE e1
        b3 == IF e2 # <<>> THEN Append(b2, context(e2)) ELSE b2
        fallback_text == PStr(<<"loudspeaker", " ">> \o a.title.s \o <<":", " ">>
                              \o a.message.s)
    IN Send(a.channel, fallback_text, a.thread_ts, b3)

send_announcement(a, now) ==
    LET b2 == <<header(PStr(<<"loudspeaker", " ">> \o a.title.s)),
                section(a.message)>>
        e1 == IF Truthy(a.author)
              THEN <<PStr(<<"*", "B", "y", ":", "*", " ">> \o a.author.s)>>
              ELSE <<>>
        e2 == IF Truthy(a.timestamp)
              THEN Append(e1, PStr(<<"*", "D", "a", "t", "e", ":", "*", " ">>
                                   \o a.timestamp.s))
              ELSE Append(e1, PStr(<<"*", "D", "a", "t", "e", ":", "*", " ">> \o now))
        b3 == IF e2 # <<>> THEN Append(b2, context(e2)) ELSE b2
        fallback_text == PStr(<<"loudspeaker", " ">> \o a.title.s \o <<":", " ">>
                              \o a.message.s)
    IN Send(a.channel, fallback_text, a.thread_ts, b3)

(***************************************************************************)
(* The send_message and update_message tools.  Their blocks parameter is   *)
(* an optional str of JSON text: none tells that it is None, tokens holds  *)
(* the text otherwise.                                                     *)
(***************************************************************************)
\* the send_message tool sending without blocks when they do not decode
send_message_dropping_blocks(a) ==
    LET given == ~a.blocks.none /\ a.blocks.tokens # <<>>
        parsed == json_loads(a.blocks.tokens)
        blocks_data == IF given /\ parsed.ok THEN parsed.val ELSE PNone
    IN [kind |-> "send", msg |-> <<>>,
        invocation |-> <<[channel |-> a.channel, text |-> a.text,
                          thread_ts |-> a.thread_ts, blocks |-> blocks_data]>>,
        request |-> <<SlackClient_send_message(a.channel, a.text, a.thread_ts,
                                               blocks_data)>>]

send_message(a) ==
    LET given == ~a.blocks.none /\ a.blocks.tokens # <<>>
        parsed == json_loads(a.blocks.tokens)
        blocks_data == IF given THEN parsed.val ELSE PNone
    IN IF given /\ ~parsed.ok
       THEN [kind |-> "raise", msg |-> parsed.msg, invocation |-> <<>>,
             request |-> <<>>]
       ELSE [kind |-> "send", msg |-> <<>>,
             invocation |-> <<[channel |-> a.channel, text |-> a.text,
                               thread_ts |-> a.thread_ts, blocks |-> blocks_data]>>,
             request |-> <<SlackClient_send_message(a.channel, a.text, a.thread_ts,
                                                    blocks_data)>>]

update_message(a) ==
    LET given == ~a.blocks.none /\ a.blocks.tokens # <<>>
        parsed == json_loads(a.blocks.tokens)
        blocks_data == IF given THEN parsed.val ELSE PNone
    IN IF given /\ ~parsed.ok
       THEN [kind |-> "raise", msg |-> parsed.msg, invocation |-> <<>>,
             request |-> <<>>]
       ELSE [kind |-> "send", msg |-> <<>>,
             invocation |-> <<[channel |-> a.channel, ts |-> a.ts, text |-> a.text,
                               blocks |-> blocks_data]>>,
             request |-> <<SlackClient_update_message(a.channel, a.ts, a.text,
                                                      blocks_data)>>]

(***************************************************************************)
(* Inputs                                                                  *)
(***************************************************************************)
Channel == PStr(<<"C123">>)
ThreadArgs == {PNone, PStr(<<>>), PStr(<<"1700000000.000100">>)}
Optional(S) == {PNone} \cup {PStr(s) : s \in S}

FieldsChars == {"a", ",", " "}

FormattedArgs ==
    [channel : {Channel},
     title : Optional({<<>>, <<"T">>}),
     text : Optional({<<>>, <<"x">>}),
     fields : Optional(StrsUpTo(FieldsChars, MaxFieldsLen)
                       \cup {<<"a", ",", " ", "b", " ", ",", "c">>,
                             <<"b", ",", ",", "a">>}),
     context : Optional({<<>>, <<"c">>}),
     thread_ts : ThreadArgs]

NotificationStatuses ==
    {<<"s", "u", "c", "c", "e", "s", "s">>, <<"S", "U", "C", "C", "E", "S", "S">>,
     <<"w", "a", "r", "n", "i", "n", "g">>, <<"W", "a", "r", "n", "i", "n", "g">>,
     <<"e", "r", "r", "o", "r">>, <<"E", "R", "R", "O", "R">>,
     <<"i", "n", "f", "o">>, <<"I", "n", "F", "o">>,
     <<"u", "n", "k", "n", "o", "w", "n">>, <<"i", "n", "f", "o", " ">>,
     <<"o", "k">>, <<>>}

NotificationArgs ==
    [channel : {Channel},
     status : {PStr(s) : s \in NotificationStatuses},
     title : {PStr(<<"T">>)},
     description : {PStr(<<"D">>)},
     details : Optional({<<>>, <<"d">>}),
     thread_ts : ThreadArgs]

ItemsChars == {"a", ",", " ", "\n"}

\* "a\nb, c\nd" and "a, b, c"
ItemsExamples ==
    {<<"a", "\n", "b", ",", " ", "c", "\n", "d">>,
     <<"a", ",", " ", "b", ",", " ", "c">>}

ListArgs ==
    [channel : {Channel},
     title : {PStr(<<"T">>)},
     items : {PStr(s) : s \in StrsUpTo(ItemsChars, MaxItemsLen) \cup ItemsExamples},
     description : Optional({<<>>, <<"D">>}),
     thread_ts : ThreadArgs]

\* JSON text of an array and of an object, from the texts of their parts
RECURSIVE JoinTokens(_)
JoinTokens(texts) ==
    IF texts = <<>> THEN <<>>
    ELSE IF Len(texts) = 1 THEN texts[1]
    ELSE texts[1] \o <<TPunct(",")>> \o JoinTokens(Tail(texts))

JArray(texts) == <<TPunct("[")>> \o JoinTokens(texts) \o <<TPunct("]")>>
JObject(texts) == <<TPunct("{")>> \o JoinTokens(texts) \o <<TPunct("}")>>
JPair(key, text) == <<TStr(<<key>>), TPunct(":")>> \o text
JString(word) == <<TStr(<<word>>)>>

ButtonYes == JObject(<<JPair("text", JString("Yes")), JPair("action_id", JString("y"))>>)

ButtonNo ==
    JObject(<<JPair("text", JString("No")), JPair("action_id", JString("n")),
              JPair("style", JString("danger"))>>)

ButtonLink ==
    JObject(<<JPair("text", JString("Go")), JPair("action_id", JString("a1")),
              JPair("value", JString("v")), JPair("url", JString("https://x")),
              JPair("style", JString("loud"))>>)

ButtonEmptyValue ==
    JObject(<<JPair("text", JString("Ok")), JPair("action_id", JString("o")),
              JPair("value", <<TStr(<<>>)>>), JPair("style", JString("primary"))>>)

ButtonNoActionId == JObject(<<JPair("text", JString("Yes"))>>)

DecodableButtons ==
    {JArray(<<>>), JArray(<<ButtonYes>>), JArray(<<ButtonYes, ButtonNo>>),
     JArray(<<ButtonNo, ButtonYes>>), JArray(<<ButtonLink, ButtonEmptyValue>>),
     JArray(<<ButtonNoActionId>>), JArray(<<ButtonYes, <<TNum(5)>> >>),
     JObject(<<>>), ButtonYes, <<TNum(5)>>, <<TLit("null")>>,
     <<TStr(<<>>)>>, JString("Yes")}

UndecodableButtons ==
    {<<>>, <<TBad("not json")>>, <<TPunct("["), TPunct("{")>> \o JString("text"),
     <<TPunct("[")>> \o ButtonYes \o <<TPunct(","), TPunct("]")>>,
     <<TPunct("[")>> \o ButtonYes, JArray(<<ButtonYes>>) \o <<TPunct("]")>>,
     <<TPunct("{")>> \o JString("text") \o JString("Yes") \o <<TPunct("}")>>}

InteractiveArgs ==
    [channel : {Channel},
     title : {PStr(<<"T">>)},
     description : {PStr(<<"D">>)},
     buttons : DecodableButtons \cup UndecodableButtons,
     thread_ts : ThreadArgs]

CodeArgs ==
    [channel : {Channel},
     title : {PStr(<<"T">>)},
     code : {PStr(<<>>), PStr(<<"x">>), PStr(<<"x", "=", "1">>)}
            \cup {PStr([i \in 1..n |-> IF i = n THEN "z" ELSE "x"]) :
                     n \in {FallbackCodeLen - 1, FallbackCodeLen,
                            FallbackCodeLen + 1, FallbackCodeLen + 3}},
     language : Optional({<<>>, <<"python">>}),
     description : Optional({<<>>, <<"D">>}),
     thread_ts : ThreadArgs]

Option1 == JObject(<<JPair("text", JString("Option 1")), JPair("value", JString("opt1"))>>)
Option2 == JObject(<<JPair("text", JString("Option 2")), JPair("value", JString("opt2"))>>)
OptionNoValue == JObject(<<JPair("text", JString("Option 3"))>>)

DecodableOptions ==
    {JArray(<<>>), JArray(<<Option1>>), JArray(<<Option1, Option2>>),
     JArray(<<Option2, Option1>>), JArray(<<OptionNoValue>>),
     JObject(<<>>), Option1, <<TNum(5)>>, <<TLit("null")>>}

UndecodableOptions ==
    {<<>>, <<TBad("not json")>>, <<TPunct("[")>> \o Option1,
     <<TPunct("[")>> \o Option1 \o <<TPunct(","), TPunct("]")>>}

FormArgs ==
    [channel : {Channel},
     title : {PStr(<<"T">>)},
     description : {PStr(<<"D">>)},
     select_options : DecodableOptions \cup UndecodableOptions,
     select_placeholder : {PStr(<<"Choose an option">>)},
     select_action_id : {PStr(<<"form_select">>)},
     thread_ts : ThreadArgs]

BlockDivider == JObject(<<JPair("type", JString("divider"))>>)
BlockImage ==
    JObject(<<JPair("type", JString("image")), JPair("alt_text", JString("alt"))>>)

\* the blocks argument of the send_message and update_message tools
BlocksArgs ==
    {[none |-> TRUE, tokens |-> <<>>]}
    \cup {[none |-> FALSE, tokens |-> t] :
            t \in {<<>>, JArray(<<>>), JArray(<<BlockDivider>>),
                   JArray(<<BlockDivider, BlockImage>>),
                   JArray(<<BlockImage, BlockDivider>>), BlockDivider,
                   <<TNum(0)>>, <<TNum(5)>>, <<TLit("null")>>,
                   <<TBad("not json")>>, <<TPunct("[")>> \o BlockDivider,
                   JArray(<<BlockDivider>>) \o <<TPunct("]")>>}}

MessageArgs ==
    [channel : {Channel},
     text : {PStr(<<"Hello">>)},
     thread_ts : ThreadArgs,
     blocks : BlocksArgs]

UpdateArgs ==
    [channel : {Channel},
     ts : {PStr(<<"1700000000.000200">>)},
     text : {PStr(<<"Hello">>)},
     blocks : BlocksArgs]

AnnouncementArgs ==
    [channel : {Channel},
     title : {PStr(<<"T">>)},
     message : {PStr(<<"M">>)},
     author : Optional({<<>>, <<"A">>}),
     timestamp : Optional({<<>>, <<"2024-01-01">>}),
     thread_ts : ThreadArgs]

\* the readings of the local clock, formatted '%Y-%m-%d %H:%M'
ClockReadings == {<<"2026-11-01 16:00">>, <<"2026-11-01 16:01">>}

(***************************************************************************)
(* Actions                                                                 *)
(***************************************************************************)
\* the credential stores are written by the setup only, never by a tool
CredentialsUnchanged == UNCHANGED <<platform, keyring_ok, keychain, environ>>

\* a tool call builds its blocks for itself; it leaves nothing with the factory
FactoryUnchanged == UNCHANGED factory

\* the server and the setup program are separate processes
SetupUnchanged == UNCHANGED setup

\* caller c invokes a tool: the handler runs from its entry to its first await
\* a tool invocation whose block list is one list shared by the calls that
\* are waiting for the transport
CallTool_shared_blocks(c, toolname, a, st) ==
    LET waiting == {d \in DOMAIN calls : d # c /\ calls[d].pc = "awaiting"}
        shared == IF waiting = {} THEN <<>>
                  ELSE calls[CHOOSE d \in waiting : TRUE].blocks
    IN [calls EXCEPT ![c] = RunToAwait(toolname, a,
                                       [st EXCEPT !.blocks = shared \o st.blocks])]

CallTool(c, toolname, a, st) ==
    [calls EXCEPT ![c] = RunToAwait(toolname, a, st)]

SendFormattedMessage(c, A) ==
    /\ calls[c].pc = "idle"
    /\ \E a \in A :
          calls' = CallTool(c, "send_formatted_message", a,
                            send_formatted_message(a))
    /\ CredentialsUnchanged
    /\ FactoryUnchanged
    /\ SetupUnchanged

SendNotificationMessage(c, A) ==
    /\ calls[c].pc = "idle"
    /\ \E a \in A :
          calls' = CallTool(c, "send_notification_message", a,
                            send_notification_message(a))
    /\ CredentialsUnchanged
    /\ FactoryUnchanged
    /\ SetupUnchanged

SendListMessage(c, A) ==
    /\ calls[c].pc = "idle"
    /\ \E a \in A :
          calls' = CallTool(c, "send_list_message", a, send_list_message(a))
    /\ CredentialsUnchanged
    /\ FactoryUnchanged
    /\ SetupUnchanged

SendInteractiveMessage(c, A) ==
    /\ calls[c].pc = "idle"
    /\ \E a \in A :
          calls' = CallTool(c, "send_interactive_message", a,
                            send_interactive_message(a))
    /\ CredentialsUnchanged
    /\ FactoryUnchanged
    /\ SetupUnchanged

SendCodeSnippet(c, A) ==
    /\ calls[c].pc = "idle"
    /\ \E a \in A :
          calls' = CallTool(c, "send_code_snippet", a, send_code_snippet(a))
    /\ CredentialsUnchanged
    /\ FactoryUnchanged
    /\ SetupUnchanged

SendFormMessage(c, A) ==
    /\ calls[c].pc = "idle"
    /\ \E a \in A :
          calls' = CallTool(c, "send_form_message", a, send_form_message(a))
    /\ CredentialsUnchanged
    /\ FactoryUnchanged
    /\ SetupUnchanged

\* datetime.now() is read when the handler runs; the reading is kept with
\* the call's arguments
SendAnnouncement(c, A) ==
    /\ calls[c].pc = "idle"
    /\ \E a \in A, now \in ClockReadings :
          calls' = CallTool(c, "send_announcement", a @@ [now |-> now],
                            send_announcement(a, now))
    /\ CredentialsUnchanged
    /\ FactoryUnchanged
    /\ SetupUnchanged

Respond(c, Outcomes) ==
    /\ calls[c].pc = "awaiting"
    /\ \E outcome \in Outcomes :
          calls' = [calls EXCEPT ![c] = Resume(calls[c], outcome)]
    /\ CredentialsUnchanged
    /\ FactoryUnchanged
    /\ SetupUnchanged

\* the caller has taken the result; it may call again
Finish(c) ==
    /\ calls[c].pc = "done"
    /\ calls' = [calls EXCEPT ![c] = IdleCall]
    /\ CredentialsUnchanged
    /\ FactoryUnchanged
    /\ SetupUnchanged

SendMessage(c, A) ==
    /\ calls[c].pc = "idle"
    /\ \E a \in A :
          calls' = [calls EXCEPT ![c] = RunClientFirst("send_message", a,
                                                       send_message(a))]
    /\ CredentialsUnchanged
    /\ FactoryUnchanged
    /\ SetupUnchanged

UpdateMessage(c, A) ==
    /\ calls[c].pc = "idle"
    /\ \E a \in A :
          calls' = [calls EXCEPT ![c] = RunClientFirst("update_message", a,
                                                       update_message(a))]
    /\ CredentialsUnchanged
    /\ FactoryUnchanged
    /\ SetupUnchanged

(***************************************************************************)
(* Direct use of BlockKitBuilder.  A user of the factory calls its static  *)
(* methods one after another; factory.last is the latest call with what it *)
(* gave, factory.kept an earlier call the user has held on to, and         *)
(* factory.others tells that a different call was made since that one.     *)
(***************************************************************************)
NoFactoryCall ==
    [fn |-> "none", args |-> <<>>, raised |-> FALSE, msg |-> <<>>, result |-> <<>>]

\* the call fn(*args) returned value
Returned(fn, args, value) ==
    [fn |-> fn, args |-> args, raised |-> FALSE, msg |-> <<>>, result |-> <<value>>]

\* the call fn(*args) raised an exception with text msg
Raised(fn, args, msg) ==
    [fn |-> fn, args |-> args, raised |-> TRUE, msg |-> msg, result |-> <<>>]

\* the same function called with the same arguments
SameCall(x, y) == x.fn = y.fn /\ x.args = y.args

\* the user's view after the call; keep: the user holds on to the call
\* before this one
AfterCall(call, keep) ==
    LET kept == IF keep THEN factory.last ELSE factory.kept
    IN [last |-> call, kept |-> kept,
        others |-> \/ ~keep /\ factory.others
                   \/ kept # NoFactoryCall /\ ~SameCall(call, kept)]

\* the user holds on to one call at most
Keep == IF factory.kept = NoFactoryCall THEN BOOLEAN ELSE {FALSE}

ToolsUnchanged == UNCHANGED <<calls, platform, keyring_ok, keychain, environ>>

FactoryTexts == {PStr(<<>>), PStr(<<"x">>)}
FactoryLists == {<<>>, <<PStr(<<"a">>)>>, <<PStr(<<"a">>), PStr(<<"b">>)>>}
FactoryOptional == {PNone, PStr(<<>>), PStr(<<"v">>)}

\* <<text, action_id, value, url, style>>
ButtonArgs ==
    {b \in {<<PStr(<<"Go">>), PStr(<<"a1">>), value, url, style>> :
                value \in FactoryOptional, url \in FactoryOptional,
                style \in {PNone, PStr(<<>>), PStr(<<"primary">>),
                           PStr(<<"danger">>), PStr(<<"loud">>),
                           PStr(<<"Primary">>)}} :
        \/ b[3] = PNone /\ b[4] = PNone
        \/ b[5] = PNone /\ <<b[3], b[4]>> \in
               {<<PStr(<<>>), PNone>>, <<PStr(<<"v">>), PNone>>,
                <<PNone, PStr(<<>>)>>, <<PNone, PStr(<<"v">>)>>,
                <<PStr(<<"v">>), PStr(<<"v">>)>>, <<PStr(<<>>), PStr(<<"v">>)>>}}

FactoryElements ==
    LET yes == button(PStr(<<"Yes">>), PStr(<<"y">>), PNone, PNone, PNone)
        no == button(PStr(<<"No">>), PStr(<<"n">>), PNone, PNone, PStr(<<"danger">>))
    IN {<<>>, <<yes>>, <<yes, no>>, <<no, yes>>}

FactoryOptions ==
    LET option(text, value) ==
            PDict(<< <<"text">>, <<"value">> >>, <<PStr(<<text>>), PStr(<<value>>)>>)
        o1 == option("Option 1", "opt1")
        o2 == option("Option 2", "opt2")
        o3 == PDict(<< <<"text">> >>, <<PStr(<<"Option 3">>)>>)
    IN {PList(<<>>), PList(<<o1>>), PList(<<o1, o2>>), PList(<<o2, o1>>),
        PList(<<o3>>)}

BuildHeader ==
    /\ \E text \in FactoryTexts, keep \in Keep :
          factory' = AfterCall(Returned("header", <<text>>, header(text)), keep)
    /\ ToolsUnchanged
    /\ SetupUnchanged

BuildSection ==
    /\ \E text \in FactoryTexts, text_type \in {"mrkdwn", "plain_text"}, keep \in Keep :
          factory' = AfterCall(Returned("section", <<text, text_type>>,
                                        section_of_type(text, text_type)), keep)
    /\ ToolsUnchanged
    /\ SetupUnchanged

BuildDivider ==
    /\ \E keep \in Keep :
          factory' = AfterCall(Returned("divider", <<>>, divider), keep)
    /\ ToolsUnchanged
    /\ SetupUnchanged

BuildFieldsSection ==
    /\ \E fields \in FactoryLists, keep \in Keep :
          factory' = AfterCall(Returned("fields_section", <<fields>>,
                                        fields_section(fields)), keep)
    /\ ToolsUnchanged
    /\ SetupUnchanged

BuildContext ==
    /\ \E elements \in FactoryLists, keep \in Keep :
          factory' = AfterCall(Returned("context", <<elements>>,
                                        context(elements)), keep)
    /\ ToolsUnchanged
    /\ SetupUnchanged

BuildImage ==
    /\ \E image_url \in {PStr(<<"u">>)}, alt_text \in {PStr(<<"alt">>)},
          title \in FactoryOptional, keep \in Keep :
          factory' = AfterCall(Returned("image", <<image_url, alt_text, title>>,
                                        image(image_url, alt_text, title)), keep)
    /\ ToolsUnchanged
    /\ SetupUnchanged

BuildButton ==
    /\ \E b \in ButtonArgs, keep \in Keep :
          factory' = AfterCall(Returned("button", b,
                                        button(b[1], b[2], b[3], b[4], b[5])), keep)
    /\ ToolsUnchanged
    /\ SetupUnchanged

BuildActions ==
    /\ \E elements \in FactoryElements, keep \in Keep :
          factory' = AfterCall(Returned("actions", <<elements>>,
                                        actions(elements)), keep)
    /\ ToolsUnchanged
    /\ SetupUnchanged

BuildSelectMenu ==
    /\ \E placeholder \in {PStr(<<"Choose">>)}, options \in FactoryOptions,
          keep \in Keep :
          LET args == <<placeholder, PStr(<<"pick">>), options>>
              r == select_menu(placeholder, PStr(<<"pick">>), options)
          IN factory' = AfterCall(IF r.ok THEN Returned("select_menu", args, r.val)
                                  ELSE Raised("select_menu", args, r.msg), keep)
    /\ ToolsUnchanged
    /\ SetupUnchanged

BuildSectionWithAccessory ==
    /\ \E text \in {PStr(<<"x">>)}, elements \in FactoryElements \ {<<>>},
          keep \in Keep :
          factory' = AfterCall(Returned("section_with_accessory",
                                        <<text, elements[1]>>,
                                        section_with_accessory(text, elements[1])),
                               keep)
    /\ ToolsUnchanged
    /\ SetupUnchanged

BuildCodeBlock ==
    /\ \E code \in {PStr(<<>>), PStr(<<"x=1">>)},
          language \in {PNone, PStr(<<>>), PStr(<<"python">>)}, keep \in Keep :
          factory' = AfterCall(Returned("code_block", <<code, language>>,
                                        code_block(code, language)), keep)
    /\ ToolsUnchanged
    /\ SetupUnchanged

BuildQuoteBlock ==
    /\ \E text \in FactoryTexts, keep \in Keep :
          factory' = AfterCall(Returned("quote_block", <<text>>, quote_block(text)),
                               keep)
    /\ ToolsUnchanged
    /\ SetupUnchanged

BuildRichTextBlock ==
    /\ \E elements \in {<<>>, <<[type |-> "text", text |-> PStr(<<"a">>)]>>},
          keep \in Keep :
          factory' = AfterCall(Returned("rich_text_block", <<elements>>,
                                        rich_text_block(elements)), keep)
    /\ ToolsUnchanged
    /\ SetupUnchanged

BuildRichTextSection ==
    /\ \E elements \in {<<>>, <<[type |-> "text", text |-> PStr(<<"a">>)]>>},
          keep \in Keep :
          factory' = AfterCall(Returned("rich_text_section", <<elements>>,
                                        rich_text_section(elements)), keep)
    /\ ToolsUnchanged
    /\ SetupUnchanged

BuildRichTextList ==
    /\ \E items \in FactoryLists \ {<<>>},
          style \in {PStr(<<"bullet">>), PStr(<<"ordered">>)}, keep \in Keep :
          factory' = AfterCall(Returned("rich_text_list", <<items, style>>,
                                        rich_text_list(items, style)), keep)
    /\ ToolsUnchanged
    /\ SetupUnchanged

(***************************************************************************)
(* Initial states: no call in progress; the credentials as the setup left  *)
(* them.  Off macOS the keychain is never written (store_credential        *)
(* returns False) and never consulted.                                     *)
(***************************************************************************)
KeychainToken == PStr(<<"xoxb-keychain">>)
EnvToken == PStr(<<"xoxb-environ">>)

KeychainWith(tok) ==
    [key \in CredentialKeys |-> IF key = "api_token" THEN tok ELSE PNone]

EnvironWith(tok) ==
    [name \in EnvNames |-> IF name = "SLACK_API_TOKEN" THEN tok ELSE PNone]

\* the setup program before main() is entered
SetupNotStarted ==
    [pc |-> "start", stored |-> <<>>, key |-> "", choice |-> "",
     ran |-> <<>>, token_success |-> "unbound",
     last |-> [fn |-> "none", key |-> "", value |-> <<>>, ok |-> FALSE],
     exit |-> 0]

Init ==
    /\ calls = [c \in Callers |-> IdleCall]
    /\ setup = SetupNotStarted
    /\ factory = [last |-> NoFactoryCall, kept |-> NoFactoryCall, others |-> FALSE]
    /\ platform \in {"darwin", "linux"}
    /\ keyring_ok \in BOOLEAN
    /\ keychain \in {KeychainWith(tok) : tok \in {PNone, KeychainToken}}
    /\ environ \in {EnvironWith(tok) : tok \in {PNone, EnvToken}}
    /\ platform # "darwin" => keyring_ok /\ keychain = KeychainWith(PNone)

Next ==
    \/ SendFormattedMessage(MainCaller, FormattedArgs)
    \/ SendNotificationMessage(MainCaller, NotificationArgs)
    \/ SendListMessage(MainCaller, ListArgs)
    \/ SendInteractiveMessage(MainCaller, InteractiveArgs)
    \/ SendCodeSnippet(MainCaller, CodeArgs)
    \/ SendFormMessage(MainCaller, FormArgs)
    \/ SendAnnouncement(MainCaller, AnnouncementArgs)
    \/ SendMessage(MainCaller, MessageArgs)
    \/ UpdateMessage(MainCaller, UpdateArgs)
    \/ Respond(MainCaller, HttpOutcomes)
    \/ Finish(MainCaller)

Spec == Init /\ [][Next]_vars

(***************************************************************************)
(* Two callers on one event loop, each running the formatted, the list or  *)
(* the interactive composer on a few inputs                                *)
(***************************************************************************)
PairFormattedArgs ==
    {a \in FormattedArgs :
        /\ a.text = PNone /\ a.fields = PNone /\ a.context = PNone
        /\ a.thread_ts = PNone /\ a.title \in {PNone, PStr(<<"T">>)}}

PairInteractiveArgs ==
    {a \in InteractiveArgs :
        /\ a.thread_ts = PNone
        /\ a.buttons \in {<<TBad("not json")>>, JArray(<<ButtonYes>>)}}

PairOutcomes ==
    {HttpException(<<"All connection attempts failed">>),
     HttpResponse(BodyOk), HttpResponse(BodyRejected), HttpResponse(BodyNotJson)}

NextPair ==
    \E c \in Callers :
        \/ SendFormattedMessage(c, PairFormattedArgs)
        \/ SendInteractiveMessage(c, PairInteractiveArgs)
        \/ SendListMessage(c, [channel : {Channel}, title : {PStr(<<"T">>)},
                               items : {PStr(<<"a">>), PStr(<<"a", ",", "b">>)},
                               description : {PNone}, thread_ts : {PNone}])
        \/ Respond(c, PairOutcomes)
        \/ Finish(c)

SpecPair == Init /\ [][NextPair]_vars

(***************************************************************************)
(* A user of the factory building blocks directly, while the interactive   *)
(* composer runs on the same event loop                                    *)
(***************************************************************************)
InitFactory ==
    /\ Init
    /\ platform = "linux"
    /\ environ = EnvironWith(EnvToken)

NextFactory ==
    \/ BuildHeader
    \/ BuildSection
    \/ BuildDivider
    \/ BuildFieldsSection
    \/ BuildContext
    \/ BuildImage
    \/ BuildButton
    \/ BuildActions
    \/ BuildSelectMenu
    \/ BuildSectionWithAccessory
    \/ BuildCodeBlock
    \/ BuildQuoteBlock
    \/ BuildRichTextBlock
    \/ BuildRichTextSection
    \/ BuildRichTextList
    \/ SendInteractiveMessage(MainCaller,
            {a \in InteractiveArgs :
                /\ a.thread_ts = PNone
                /\ a.buttons \in {JArray(<<ButtonYes, ButtonNo>>),
                                  JArray(<<ButtonLink, ButtonEmptyValue>>)}})
    \/ Respond(MainCaller, {HttpException(<<"All connection attempts failed">>),
                            HttpResponse(BodyOk)})
    \/ Finish(MainCaller)

SpecFactory == InitFactory /\ [][NextFactory]_vars

(***************************************************************************)
(* The setup program (slack_mcp/setup.py) and the writers of the           *)
(* credential manager it drives                                            *)
(***************************************************************************)
\* s.startswith(prefix)
startswith(s, prefix) ==
    Len(s) >= Len(prefix) /\ SubSeq(s, 1, Len(prefix)) = prefix

Valid == [ok |-> TRUE, msg |-> ""]
Invalid(msg) == [ok |-> FALSE, msg |-> msg]

\* validate_slack_token accepting a token of any length
validate_slack_token_any_length(token) ==
    IF token = <<>> THEN Invalid("Token cannot be empty")
    ELSE IF startswith(token, <<"x", "o", "x", "b", "-">>) THEN Valid
    ELSE IF startswith(token, <<"x", "o", "x", "p", "-">>) THEN Valid
    ELSE IF startswith(token, <<"x", "a", "p", "p", "-">>) THEN Valid
    ELSE Invalid("Invalid token format. Slack tokens should start with 'xoxb-', 'xoxp-', or 'xapp-'")

validate_slack_token(token) ==
    IF token = <<>> THEN Invalid("Token cannot be empty")
    ELSE IF startswith(token, <<"x", "o", "x", "b", "-">>)
    THEN IF Len(token) < 50 THEN Invalid("Bot token appears too short") ELSE Valid
    ELSE IF startswith(token, <<"x", "o", "x", "p", "-">>)
    THEN IF Len(token) < 50 THEN Invalid("User token appears too short") ELSE Valid
    ELSE IF startswith(token, <<"x", "a", "p", "p", "-">>)
    THEN IF Len(token) < 100 THEN Invalid("App token appears too short") ELSE Valid
    ELSE Invalid("Invalid token format. Slack tokens should start with 'xoxb-', 'xoxp-', or 'xapp-'")

\* the characters of [A-Z0-9] the workspace ids of the model are made of
UpperAlnum == {"A", "B", "Z", "0", "1", "2", "3", "4", "5", "6", "7", "8", "9"}

\* re.match(r"^T[A-Z0-9]{8,}$", workspace_id) on a stripped string
validate_workspace_id(workspace_id) ==
    IF workspace_id = <<>> THEN Valid
    ELSE IF /\ Len(workspace_id) >= 9
            /\ workspace_id[1] = "T"
            /\ \A i \in 2..Len(workspace_id) : workspace_id[i] \in UpperAlnum
    THEN Valid
    ELSE Invalid("Invalid workspace ID format. Should start with 'T' followed by alphanumeric characters (e.g., 'T1234567890')")

\* CredentialManager.store_credential(key, value) on the store kc; fails is
\* whether keyring.set_password raises
store_credential(kc, key, value, fails) ==
    IF platform = "darwin" /\ ~fails
    THEN [keychain |-> [kc EXCEPT ![key] = PStr(value)], ok |-> TRUE]
    ELSE [keychain |-> kc, ok |-> FALSE]

\* CredentialManager.delete_credential(key) on the store kc;
\* keyring.delete_password raises when the entry is missing or the keyring
\* fails
delete_credential(kc, key, fails) ==
    IF platform = "darwin" /\ ~fails /\ kc[key] # PNone
    THEN [keychain |-> [kc EXCEPT ![key] = PNone], ok |-> TRUE]
    ELSE [keychain |-> kc, ok |-> FALSE]

\* for key in stored: manager.delete_credential(key), from the i-th key on
RECURSIVE delete_each(_, _, _, _)
delete_each(kc, stored, i, failing) ==
    IF i > Len(stored) THEN [keychain |-> kc, ok |-> TRUE]
    ELSE LET one == delete_credential(kc, stored[i], stored[i] \in failing)
             rest == delete_each(one.keychain, stored, i + 1, failing)
         IN [keychain |-> rest.keychain, ok |-> one.ok /\ rest.ok]

common_keys == <<"api_token", "workspace_id", "app_token">>

list_stored_credentials ==
    SelectSeq(common_keys, LAMBDA key : get_credential(key) # PNone)

\* choice in ("y", "yes") and choice in ("n", "no"), choice lowered
IsYes(answer) == lower(answer) \in {<<"y">>, <<"y", "e", "s">>}
IsNo(answer) == lower(answer) \in {<<"n">>, <<"n", "o">>}

DigitValue(ch) ==
    CASE ch = "0" -> 0 [] ch = "1" -> 1 [] ch = "2" -> 2 [] ch = "3" -> 3
      [] ch = "4" -> 4 [] ch = "5" -> 5 [] ch = "6" -> 6 [] ch = "7" -> 7
      [] ch = "8" -> 8 [] ch = "9" -> 9 [] OTHER -> -1

\* int(s) raises ValueError
IntRaises(s) == s = <<>> \/ \E i \in 1..Len(s) : DigitValue(s[i]) < 0

\* int(s) for a string of decimal digits
RECURSIVE int(_)
int(s) ==
    IF s = <<>> THEN 0
    ELSE 10 * int(SubSeq(s, 1, Len(s) - 1)) + DigitValue(s[Len(s)])

\* the record of the last call that tried to change the secret store
StoreCall(fn, key, value, ok) == [fn |-> fn, key |-> key, value |-> value, ok |-> ok]

SetupPrefix(kind) == <<"x", kind[1], kind[2], kind[3], "-">>

\* a token text of n characters with the prefix of its kind
Token(kind, n) == SetupPrefix(kind) \o [i \in 1..(n - 5) |-> "0"]

BotMinLen == 50
AppMinLen == 100

\* what the user types at a token prompt
TokenInputs ==
    {<<>>, <<" ">>, <<"a", "b", "c">>,
     Token(<<"o", "x", "b">>, BotMinLen - 1), Token(<<"o", "x", "b">>, BotMinLen),
     Token(<<"o", "x", "p">>, BotMinLen - 1),
     <<" ">> \o Token(<<"o", "x", "p">>, BotMinLen) \o <<" ">>,
     Token(<<"a", "p", "p">>, AppMinLen - 1), Token(<<"a", "p", "p">>, AppMinLen)}

WorkspaceInputs ==
    {<<>>, <<"T", "1", "2", "3", "4", "5", "6", "7">>,
     <<" ", "T", "1", "2", "3", "4", "5", "6", "7", "8">>,
     <<"t", "1", "2", "3", "4", "5", "6", "7", "8">>}

SecretInputs == {<<>>, <<" ">>, <<"s", "3", "c", "r", "3", "t">>}

Answers == {<<>>, <<"y">>, <<"Y", "E", "S">>, <<"n">>, <<"N", "o">>}

MenuInputs == {<<"0">>, <<"1">>, <<" ", "2">>, <<"3">>, <<"4">>, <<"5">>, <<>>}

DeleteInputs ==
    {<<"0">>, <<"1">>, <<"2">>, <<" ", "3">>, <<"4">>, <<"5">>, <<"x">>, <<>>}

\* what the secret store holds for a key after an earlier run of the program
StoredBefore(key) ==
    CASE key = "api_token" -> PStr(Token(<<"o", "x", "b">>, BotMinLen + 1))
      [] key = "workspace_id" -> PStr(<<"T", "A", "B", "Z", "0", "0", "0", "0", "9">>)
      [] key = "app_token" -> PStr(Token(<<"a", "p", "p">>, AppMinLen + 1))
      [] key = "signing_secret" -> PStr(<<"o", "l", "d">>)

ServerUnchanged == UNCHANGED <<calls, platform, keyring_ok, environ, factory>>

\* main() up to its first prompt: manager = CredentialManager()
Main ==
    /\ setup.pc = "start"
    /\ setup' = IF KeychainUnavailable
                THEN [setup EXCEPT !.pc = "exited", !.exit = 1]
                ELSE [setup EXCEPT !.pc = "menu"]
    /\ UNCHANGED keychain
    /\ ServerUnchanged

\* the prompt "Select an option [1-4, 0]: " of main()
MainMenu ==
    /\ setup.pc = "menu"
    /\ \E typed \in MenuInputs :
          LET choice == strip(typed)
              stored == list_stored_credentials
          IN setup' =
               CASE choice = <<"0">> ->
                      [setup EXCEPT !.pc = "exited"]
                 [] choice = <<"1">> ->
                      [setup EXCEPT !.pc = "api_token", !.choice = "1",
                                    !.ran = <<"setup_api_token">>]
                 [] choice = <<"2">> ->
                      [setup EXCEPT !.pc = "continue", !.choice = "2",
                                    !.ran = <<"list_credentials">>]
                 [] choice = <<"3">> ->
                      [setup EXCEPT !.pc = IF stored = <<>> THEN "continue"
                                           ELSE "delete_select",
                                    !.choice = "3", !.stored = stored,
                                    !.ran = <<"delete_credentials">>]
                 [] choice = <<"4">> ->
                      [setup EXCEPT !.pc = "continue", !.choice = "4",
                                    !.ran = <<"verify_setup">>]
                 [] OTHER ->
                      [setup EXCEPT !.pc = "continue", !.choice = "invalid",
                                    !.ran = <<>>]
    /\ UNCHANGED keychain
    /\ ServerUnchanged

\* setup_api_token: the token prompt of its loop
SetupApiToken ==
    /\ setup.pc = "api_token"
    /\ \E typed \in TokenInputs, fails \in BOOLEAN :
          LET token == strip(typed)
              written == store_credential(keychain, "api_token", token, fails)
          IN IF token = <<>>
             THEN /\ setup' = [setup EXCEPT !.pc = "skip"]
                  /\ UNCHANGED keychain
             ELSE IF ~validate_slack_token(token).ok
             THEN /\ setup' = [setup EXCEPT !.pc = "retry"]
                  /\ UNCHANGED keychain
             ELSE /\ keychain' = written.keychain
                  /\ setup' =
                       IF written.ok
                       THEN [setup EXCEPT
                               !.pc = "workspace_id", !.token_success = "True",
                               !.ran = Append(@, "setup_workspace_id"),
                               !.last = StoreCall("store_credential",
                                                  "api_token", token, TRUE)]
                       ELSE [setup EXCEPT
                               !.pc = "continue", !.token_success = "False",
                               !.last = StoreCall("store_credential",
                                                  "api_token", token, FALSE)]
    /\ ServerUnchanged

\* setup_api_token: "No token entered. Skip API token setup? [y/N]: "
SkipPrompt ==
    /\ setup.pc = "skip"
    /\ \E answer \in Answers :
          setup' = IF IsYes(answer)
                   THEN [setup EXCEPT !.pc = "continue", !.token_success = "False"]
                   ELSE [setup EXCEPT !.pc = "api_token"]
    /\ UNCHANGED keychain
    /\ ServerUnchanged

\* setup_api_token: "Try again? [Y/n]: "
RetryPrompt ==
    /\ setup.pc = "retry"
    /\ \E answer \in Answers :
          setup' = IF IsNo(answer)
                   THEN [setup EXCEPT !.pc = "continue", !.token_success = "False"]
                   ELSE [setup EXCEPT !.pc = "api_token"]
    /\ UNCHANGED keychain
    /\ ServerUnchanged

\* setup_workspace_id, then setup_additional_credentials up to its first prompt
SetupWorkspaceId ==
    /\ setup.pc = "workspace_id"
    /\ \E typed \in WorkspaceInputs, fails \in BOOLEAN :
          LET workspace_id == strip(typed)
              written == store_credential(keychain, "workspace_id",
                                          workspace_id, fails)
              stores == workspace_id # <<>>
                           /\ validate_workspace_id(workspace_id).ok
          IN /\ keychain' = IF stores THEN written.keychain ELSE keychain
             /\ setup' = [setup EXCEPT
                            !.pc = "app_choice",
                            !.ran = Append(@, "setup_additional_credentials"),
                            !.last = IF stores
                                     THEN StoreCall("store_credential",
                                                    "workspace_id",
                                                    workspace_id, written.ok)
                                     ELSE @]
    /\ ServerUnchanged

\* "Do you need to set up an App Token for Socket Mode? [y/N]: "
AppTokenChoice ==
    /\ setup.pc = "app_choice"
    /\ \E answer \in Answers :
          setup' = [setup EXCEPT !.pc = IF IsYes(answer) THEN "app_token"
                                        ELSE "secret_choice"]
    /\ UNCHANGED keychain
    /\ ServerUnchanged

\* "Enter your App Token (starts with 'xapp-'): "
AppToken ==
    /\ setup.pc = "app_token"
    /\ \E typed \in TokenInputs, fails \in BOOLEAN :
          LET app_token == strip(typed)
              written == store_credential(keychain, "app_token", app_token, fails)
              stores == app_token # <<>> /\ validate_slack_token(app_token).ok
          IN /\ keychain' = IF stores THEN written.keychain ELSE keychain
             /\ setup' = [setup EXCEPT
                            !.pc = "secret_choice",
                            !.last = IF stores
                                     THEN StoreCall("store_credential",
                                                    "app_token", app_token,
                                                    written.ok)
                                     ELSE @]
    /\ ServerUnchanged

\* "Do you need to set up a Signing Secret for webhook verification? [y/N]: ";
\* on any answer but yes setup_additional_credentials returns and
\* verify_setup runs
SigningSecretChoice ==
    /\ setup.pc = "secret_choice"
    /\ \E answer \in Answers :
          setup' = IF IsYes(answer)
                   THEN [setup EXCEPT !.pc = "signing_secret"]
                   ELSE [setup EXCEPT !.pc = "continue",
                                      !.ran = Append(@, "verify_setup")]
    /\ UNCHANGED keychain
    /\ ServerUnchanged

\* "Enter your Signing Secret: ", then verify_setup
SigningSecret ==
    /\ setup.pc = "signing_secret"
    /\ \E typed \in SecretInputs, fails \in BOOLEAN :
          LET signing_secret == strip(typed)
              written == store_credential(keychain, "signing_secret",
                                          signing_secret, fails)
              stores == signing_secret # <<>>
          IN /\ keychain' = IF stores THEN written.keychain ELSE keychain
             /\ setup' = [setup EXCEPT
                            !.pc = "continue",
                            !.ran = Append(@, "verify_setup"),
                            !.last = IF stores
                                     THEN StoreCall("store_credential",
                                                    "signing_secret",
                                                    signing_secret, written.ok)
                                     ELSE @]
    /\ ServerUnchanged

\* "Press Enter to continue...": the branch of main()'s loop is over, and with
\* it the locals of the functions it called
PressEnter ==
    /\ setup.pc = "continue"
    /\ setup' = [SetupNotStarted EXCEPT !.pc = "menu",
                                       !.token_success = setup.token_success]
    /\ UNCHANGED keychain
    /\ ServerUnchanged

\* delete_credentials: "Select credential to delete: "
DeleteSelect ==
    /\ setup.pc = "delete_select"
    /\ \E typed \in DeleteInputs :
          LET choice == strip(typed)
              stored == setup.stored
          IN setup' =
               IF choice = <<"0">> \/ IntRaises(choice)
               THEN [setup EXCEPT !.pc = "continue"]
               ELSE IF int(choice) = Len(stored) + 1
               THEN [setup EXCEPT !.pc = "delete_all_confirm"]
               ELSE IF 1 <= int(choice) /\ int(choice) <= Len(stored)
               THEN [setup EXCEPT !.pc = "delete_one_confirm",
                                  !.key = stored[int(choice)]]
               ELSE [setup EXCEPT !.pc = "continue"]
    /\ UNCHANGED keychain
    /\ ServerUnchanged

\* "Are you sure you want to delete ALL credentials? [y/N]: "
DeleteAllConfirm ==
    /\ setup.pc = "delete_all_confirm"
    /\ \E confirm \in Answers, failing \in SUBSET {"api_token", "app_token"} :
          LET deleted == delete_each(keychain, setup.stored, 1, failing)
          IN IF IsYes(confirm)
             THEN /\ keychain' = deleted.keychain
                  /\ setup' = [setup EXCEPT
                                 !.pc = "continue",
                                 !.last = StoreCall("delete_all", "", <<>>,
                                                    deleted.ok)]
             ELSE /\ UNCHANGED keychain
                  /\ setup' = [setup EXCEPT !.pc = "continue"]
    /\ ServerUnchanged

\* "Are you sure you want to delete '{key}'? [y/N]: "
DeleteOneConfirm ==
    /\ setup.pc = "delete_one_confirm"
    /\ \E confirm \in Answers, fails \in BOOLEAN :
          LET deleted == delete_credential(keychain, setup.key, fails)
          IN IF IsYes(confirm)
             THEN /\ keychain' = deleted.keychain
                  /\ setup' = [setup EXCEPT
                                 !.pc = "continue",
                                 !.last = StoreCall("delete_credential",
                                                    setup.key, <<>>, deleted.ok)]
             ELSE /\ UNCHANGED keychain
                  /\ setup' = [setup EXCEPT !.pc = "continue"]
    /\ ServerUnchanged

\* Ctrl-C at a prompt: delete_credentials catches it and returns, to "Press
\* Enter to continue..."; anywhere else main() catches it and leaves its loop
KeyboardInterrupt ==
    /\ setup.pc \notin {"start", "exited"}
    /\ setup' = IF setup.pc \in {"delete_select", "delete_all_confirm",
                                 "delete_one_confirm"}
                THEN [setup EXCEPT !.pc = "continue"]
                ELSE [setup EXCEPT !.pc = "exited"]
    /\ UNCHANGED keychain
    /\ ServerUnchanged

InitSetup ==
    /\ calls = [c \in Callers |-> IdleCall]
    /\ factory = [last |-> NoFactoryCall, kept |-> NoFactoryCall, others |-> FALSE]
    /\ setup = SetupNotStarted
    /\ platform \in {"darwin", "linux"}
    /\ keyring_ok \in BOOLEAN
    /\ keychain \in {[key \in CredentialKeys |->
                        IF key \in held THEN StoredBefore(key) ELSE PNone] :
                     held \in {{}, {"workspace_id"}, CredentialKeys}}
    /\ environ \in {EnvironWith(tok) : tok \in {PNone, EnvToken}}
    /\ platform # "darwin" => keyring_ok /\ keychain = KeychainWith(PNone)

NextSetup ==
    \/ Main
    \/ MainMenu
    \/ SetupApiToken
    \/ SkipPrompt
    \/ RetryPrompt
    \/ SetupWorkspaceId
    \/ AppTokenChoice
    \/ AppToken
    \/ SigningSecretChoice
    \/ SigningSecret
    \/ PressEnter
    \/ DeleteSelect
    \/ DeleteAllConfirm
    \/ DeleteOneConfirm
    \/ KeyboardInterrupt

SpecSetup == InitSetup /\ [][NextSetup]_vars

(***************************************************************************)
(* Properties                                                              *)
(***************************************************************************)
\* the blocks handed to the transport by the i-th send of caller c
SentBlocks(c, i) == calls[c].sent[i].blocks.items

\* the result is the JSON text of an object with the single key "error"
\* holding a str
IsErrorResult(result) ==
    LET p == json_loads(result)
    IN /\ p.ok
       /\ p.val.t = "dict"
       /\ p.val.keys = << <<"error">> >>
       /\ p.val.items[1].t = "str"

FormattedInputs == <<"title", "text", "fields", "context">>

\* block b is the one send_formatted_message builds for input k of call a
FormattedBlockFor(k, b, a) ==
    CASE k = "title" ->
            b = [type |-> "header",
                 text |-> [type |-> "plain_text", text |-> a.title]]
      [] k = "text" ->
            b = [type |-> "section", text |-> [type |-> "mrkdwn", text |-> a.text]]
      [] k = "fields" ->
            b.type = "section" /\ DOMAIN b = {"type", "fields"}
      [] k = "context" ->
            b = [type |-> "context",
                 elements |-> <<[type |-> "mrkdwn", text |-> a.context]>>]

\* C1: whenever send_formatted_message hands blocks to the transport, there
\* is exactly one block per non-empty input among title, text, fields and
\* context, in that order; with all four non-empty these are the 4 blocks
\* [header, section with text, section with fields, context].
C1_FormattedBlocksInOrder ==
    \A c \in Callers :
        calls[c].tool = "send_formatted_message" /\ calls[c].sent # <<>> =>
            LET a == calls[c].args
                blocks == SentBlocks(c, 1)
                present == SelectSeq(FormattedInputs, LAMBDA k : Truthy(a[k]))
            IN /\ Len(blocks) = Len(present)
               /\ \A i \in 1..Len(present) :
                     FormattedBlockFor(present[i], blocks[i], a)
               /\ Len(present) = 4 =>
                     /\ Len(blocks) = 4
                     /\ blocks[1].type = "header"
                     /\ blocks[2].type = "section" /\ "text" \in DOMAIN blocks[2]
                     /\ blocks[3].type = "section" /\ "fields" \in DOMAIN blocks[3]
                     /\ blocks[4].type = "context"

C1_Witness ==
    \E c \in Callers :
        /\ calls[c].tool = "send_formatted_message"
        /\ calls[c].sent # <<>>
        /\ \A i \in 1..4 : Truthy(calls[c].args[FormattedInputs[i]])
        /\ Len(SentBlocks(c, 1)) = 4

\* C2: a send_formatted_message call given none of title, text, fields and
\* context returns an error result without constructing a client or
\* invoking the transport, and no send_formatted_message call sends an
\* empty block list.
C2_FormattedNoContent ==
    \A c \in Callers :
        calls[c].tool = "send_formatted_message" =>
            /\ (\A i \in 1..4 : calls[c].args[FormattedInputs[i]] = PNone) =>
                  /\ calls[c].pc = "done"
                  /\ IsErrorResult(calls[c].result)
                  /\ calls[c].clients = 0
                  /\ calls[c].sent = <<>>
                  /\ calls[c].http = <<>>
            /\ \A i \in 1..Len(calls[c].sent) : SentBlocks(c, i) # <<>>

C2_Witness ==
    \E c \in Callers :
        /\ calls[c].tool = "send_formatted_message"
        /\ \A i \in 1..4 : calls[c].args[FormattedInputs[i]] = PNone
        /\ calls[c].pc = "done"
        /\ json_loads(calls[c].result).val = ErrorObject(NoContentMsg)

ComposerTools ==
    {"send_formatted_message", "send_notification_message", "send_list_message",
     "send_interactive_message", "send_code_snippet", "send_form_message",
     "send_announcement"}

\* C3: whenever a composer tool invokes the transport's send, the block
\* sequence it passes is a list of at least one block.
C3_NeverSendsEmptyBlocks ==
    \A c \in Callers :
        calls[c].tool \in ComposerTools =>
            \A i \in 1..Len(calls[c].sent) :
                /\ calls[c].sent[i].blocks.t = "list"
                /\ Len(SentBlocks(c, i)) >= 1

C3_Witness ==
    \E c \in Callers :
        /\ calls[c].tool \in ComposerTools
        /\ calls[c].sent # <<>>
        /\ Len(SentBlocks(c, 1)) = 1

\* the call failed before it invoked the transport's send
FailedBeforeSend(c) ==
    /\ calls[c].pc = "done"
    /\ \/ calls[c].raised \in {"compose", "client_init"}
       \/ calls[c].raised = "none" /\ calls[c].sent = <<>>

\* C4: a composer call ends by returning JSON text, never by raising; a
\* call that fails before the send returns only an error object and never
\* invokes the transport; when the transport is invoked it is invoked once,
\* with the complete block list of the composition.
C4_ErrorOrCompleteMessage ==
    \A c \in Callers :
        calls[c].tool \in ComposerTools =>
            /\ calls[c].pc \in {"awaiting", "done"}
            /\ calls[c].pc = "done" =>
                  /\ json_loads(calls[c].result).ok
                  /\ json_loads(calls[c].result).val.t = "dict"
            /\ FailedBeforeSend(c) =>
                  /\ IsErrorResult(calls[c].result)
                  /\ calls[c].sent = <<>>
                  /\ calls[c].http = <<>>
            /\ calls[c].sent # <<>> =>
                  /\ Len(calls[c].sent) = 1
                  /\ SentBlocks(c, 1) = calls[c].blocks
                  /\ calls[c].tool = "send_interactive_message" =>
                        calls[c].args.buttons \notin UndecodableButtons
                  /\ calls[c].tool = "send_form_message" =>
                        /\ calls[c].args.select_options \notin UndecodableOptions
                        /\ Len(SentBlocks(c, 1)) = 3

\* a call that failed with a partly built block list
C4_Witness ==
    \E c \in Callers :
        /\ calls[c].tool = "send_interactive_message"
        /\ calls[c].raised = "compose"
        /\ Len(calls[c].blocks) = 2
        /\ calls[c].sent = <<>>
        /\ IsErrorResult(calls[c].result)

\* the call failed validation: it returned or raised while composing
IsValidationFailure(c) ==
    /\ calls[c].pc = "done"
    /\ calls[c].sent = <<>>
    /\ calls[c].raised \in {"none", "compose"}

\* the call failed in the transport: no token, no connection, a response
\* that is not JSON, or a rejection by the remote API
IsTransportFailure(c) ==
    /\ calls[c].pc = "done"
    /\ calls[c].raised \in {"make_request", "http", "response_json",
                            "response_get", "api_error"}

\* C5: the result of a call that failed in the transport differs from the
\* result of every call that failed validation, so a caller can tell the
\* two kinds of failure apart from the result alone.
C5_TransportFailureDistinct ==
    \A c1, c2 \in Callers :
        IsValidationFailure(c1) /\ IsTransportFailure(c2) =>
            calls[c1].result # calls[c2].result

\* C6: when buttons (send_interactive_message) or select_options
\* (send_form_message) is not decodable JSON, the call returns an error
\* result and neither constructs a client nor invokes the transport.
C6_UndecodableJsonIsAnError ==
    \A c \in Callers :
        LET undecodable ==
                \/ /\ calls[c].tool = "send_interactive_message"
                   /\ calls[c].args.buttons \in UndecodableButtons
                \/ /\ calls[c].tool = "send_form_message"
                   /\ calls[c].args.select_options \in UndecodableOptions
        IN undecodable =>
              /\ calls[c].pc = "done"
              /\ IsErrorResult(calls[c].result)
              /\ calls[c].clients = 0
              /\ calls[c].sent = <<>>
              /\ calls[c].http = <<>>

C6_Witness ==
    \E c \in Callers :
        /\ calls[c].tool = "send_form_message"
        /\ calls[c].args.select_options \in UndecodableOptions
        /\ calls[c].pc = "done"
        /\ IsErrorResult(calls[c].result)

\* the spellings of each status among NotificationStatuses
SuccessSpellings ==
    {<<"s", "u", "c", "c", "e", "s", "s">>, <<"S", "U", "C", "C", "E", "S", "S">>}

WarningSpellings ==
    {<<"w", "a", "r", "n", "i", "n", "g">>, <<"W", "a", "r", "n", "i", "n", "g">>}

ErrorSpellings == {<<"e", "r", "r", "o", "r">>, <<"E", "R", "R", "O", "R">>}

InfoSpellings == {<<"i", "n", "f", "o">>, <<"I", "n", "F", "o">>}

ExpectedEmoji(status) ==
    CASE status \in SuccessSpellings -> "white_check_mark"
      [] status \in WarningSpellings -> "warning_sign"
      [] status \in ErrorSpellings -> "cross_mark"
      [] OTHER -> "information_source"

\* C7: send_notification_message never fails on its status: composing
\* raises nothing and, unless the keychain is unavailable, the send is
\* reached; the emoji is that of the status matched without regard to case,
\* and that of "info" for every status outside the table.
C7_StatusResolution ==
    \A c \in Callers :
        calls[c].tool = "send_notification_message" =>
            /\ calls[c].raised # "compose"
            /\ ~KeychainUnavailable => calls[c].sent # <<>>
            /\ Head(calls[c].blocks[1].text.text.s)
                  = ExpectedEmoji(calls[c].args.status.s)
            /\ calls[c].sent # <<>> =>
                  /\ Head(calls[c].sent[1].text.s)
                        = ExpectedEmoji(calls[c].args.status.s)
                  /\ Head(SentBlocks(c, 1)[1].text.text.s)
                        = ExpectedEmoji(calls[c].args.status.s)

C7_Witness ==
    \E c \in Callers :
        /\ calls[c].tool = "send_notification_message"
        /\ calls[c].args.status.s = <<"u", "n", "k", "n", "o", "w", "n">>
        /\ calls[c].sent # <<>>
        /\ Head(calls[c].sent[1].text.s) = "information_source"

\* C8: send_notification_message sends exactly one section block when
\* details is absent and exactly [section, divider, context(details)] when
\* it is present, and its fallback text is emoji, space, title, ": ",
\* description.
C8_NotificationBlocks ==
    \A c \in Callers :
        calls[c].tool = "send_notification_message" /\ calls[c].sent # <<>> =>
            LET a == calls[c].args
                blocks == SentBlocks(c, 1)
                emoji == ExpectedEmoji(a.status.s)
            IN /\ blocks[1] = [type |-> "section",
                               text |-> [type |-> "mrkdwn",
                                         text |-> PStr(<<emoji, " ", "*">> \o a.title.s
                                                       \o <<"*", "\n">>
                                                       \o a.description.s)]]
               /\ ~Truthy(a.details) => Len(blocks) = 1
               /\ Truthy(a.details) =>
                     /\ Len(blocks) = 3
                     /\ blocks[2] = [type |-> "divider"]
                     /\ blocks[3] = [type |-> "context",
                                     elements |-> <<[type |-> "mrkdwn",
                                                     text |-> a.details]>>]
               /\ (\E i \in 1..Len(blocks) : blocks[i].type = "divider")
                     <=> (\E i \in 1..Len(blocks) : blocks[i].type = "context")
               /\ calls[c].sent[1].text
                     = PStr(<<emoji, " ">> \o a.title.s \o <<":", " ">>
                            \o a.description.s)

C8_Witness ==
    \E c \in Callers :
        /\ calls[c].tool = "send_notification_message"
        /\ calls[c].sent # <<>>
        /\ Truthy(calls[c].args.details)
        /\ Len(SentBlocks(c, 1)) = 3

\* the positions of s at which character ch stands
PositionsOf(s, ch) == {i \in 1..Len(s) : s[i] = ch}

\* piece without its leading and trailing whitespace
Trimmed(piece) ==
    LET kept == {i \in 1..Len(piece) : piece[i] \notin Whitespace}
    IN IF kept = {} THEN <<>>
       ELSE SubSeq(piece, CHOOSE i \in kept : \A j \in kept : i <= j,
                          CHOOSE i \in kept : \A j \in kept : i >= j)

\* the items of the raw string s: the stretches between two neighbouring
\* separators (or an end of s), trimmed, without the empty ones, in order
RECURSIVE ItemsAfter(_, _, _)
ItemsAfter(s, cuts, from) ==
    IF from > Len(s) + 1 THEN <<>>
    ELSE LET to == CHOOSE i \in cuts : i >= from /\ \A j \in cuts : j >= from => i <= j
             item == Trimmed(SubSeq(s, from, to - 1))
         IN (IF item = <<>> THEN <<>> ELSE <<item>>) \o ItemsAfter(s, cuts, to + 1)

ExpectedItems(s) ==
    LET sep == IF PositionsOf(s, "\n") # {} THEN "\n" ELSE ","
    IN ItemsAfter(s, PositionsOf(s, sep) \cup {Len(s) + 1}, 1)

\* the text of the list section and the fallback text for the given items
RECURSIVE BulletLines(_)
BulletLines(items) ==
    IF items = <<>> THEN <<>>
    ELSE <<"bullet", " ">> \o Head(items)
         \o (IF Len(items) > 1 THEN <<"\n">> \o BulletLines(Tail(items)) ELSE <<>>)

RECURSIVE CommaList(_)
CommaList(items) ==
    IF items = <<>> THEN <<>>
    ELSE Head(items)
         \o (IF Len(items) > 1 THEN <<",", " ">> \o CommaList(Tail(items)) ELSE <<>>)

\* C9: send_list_message cuts items at every newline when it contains one
\* and at every comma otherwise, trims each piece, drops the pieces that are
\* then empty and keeps the rest in input order: the list section shows
\* exactly these items, one bullet line each, and the fallback text lists
\* them after the title; "a\nb, c\nd" gives the items a, "b, c" and d.
C9_ItemSplitting ==
    \A c \in Callers :
        calls[c].tool = "send_list_message" /\ calls[c].sent # <<>> =>
            LET a == calls[c].args
                blocks == SentBlocks(c, 1)
                items == ExpectedItems(a.items.s)
                list_text == blocks[Len(blocks)].text.text.s
            IN /\ list_text = BulletLines(items)
               /\ calls[c].sent[1].text.s = a.title.s \o <<":", " ">> \o CommaList(items)
               /\ \A i \in 1..Len(items) :
                     /\ items[i] # <<>>
                     /\ items[i][1] \notin Whitespace
                     /\ items[i][Len(items[i])] \notin Whitespace
               /\ a.items.s = <<"a", "\n", "b", ",", " ", "c", "\n", "d">> =>
                     list_text = <<"bullet", " ", "a", "\n",
                                   "bullet", " ", "b", ",", " ", "c", "\n",
                                   "bullet", " ", "d">>
               /\ a.items.s = <<"a", ",", " ", "b", ",", " ", "c">> =>
                     list_text = <<"bullet", " ", "a", "\n", "bullet", " ", "b", "\n",
                                   "bullet", " ", "c">>

\* items with a newline and a comma: the comma is not a separator
C9_Witness ==
    \E c \in Callers :
        /\ calls[c].tool = "send_list_message"
        /\ calls[c].sent # <<>>
        /\ calls[c].args.items.s = <<"a", "\n", "b", ",", " ", "c", "\n", "d">>
        /\ Len(ExpectedItems(calls[c].args.items.s)) = 3

\* C10: send_list_message sends [header(title), list section] when
\* description is absent and [header(title), section(description), divider,
\* list section] when it is present: the description section and the
\* divider come together or not at all.
C10_ListBlocks ==
    \A c \in Callers :
        calls[c].tool = "send_list_message" /\ calls[c].sent # <<>> =>
            LET a == calls[c].args
                blocks == SentBlocks(c, 1)
                last == blocks[Len(blocks)]
            IN /\ blocks[1] = [type |-> "header",
                               text |-> [type |-> "plain_text", text |-> a.title]]
               /\ last.type = "section" /\ last.text.type = "mrkdwn"
               /\ ~Truthy(a.description) => Len(blocks) = 2
               /\ Truthy(a.description) =>
                     /\ Len(blocks) = 4
                     /\ blocks[2] = [type |-> "section",
                                     text |-> [type |-> "mrkdwn",
                                               text |-> a.description]]
                     /\ blocks[3] = [type |-> "divider"]
               /\ (\E i \in 1..Len(blocks) : blocks[i].type = "divider")
                     <=> Len(blocks) = 4

C10_Witness ==
    \E c \in Callers :
        /\ calls[c].tool = "send_list_message"
        /\ calls[c].sent # <<>>
        /\ Truthy(calls[c].args.description)
        /\ Len(SentBlocks(c, 1)) = 4

\* x is a decoded button object with the two keys the handler subscripts
IsButtonObject(x) ==
    x.t = "dict" /\ HasKey(x, <<"text">>) /\ HasKey(x, <<"action_id">>)

\* C11: when buttons decodes to an array, the blocks send_interactive_message
\* sends are header(title), section(description) and, only if the array is
\* not empty, one actions block, last, holding one button per object of the
\* array in the array's order; an array of button objects always reaches the
\* send (unless the keychain is unavailable).
C11_InteractiveBlocks ==
    \A c \in Callers :
        calls[c].tool = "send_interactive_message" =>
            LET a == calls[c].args
                decoded == json_loads(a.buttons)
                array == decoded.val.items
                isArray == decoded.ok /\ decoded.val.t = "list"
            IN /\ (/\ isArray
                   /\ \A i \in 1..Len(array) : IsButtonObject(array[i])
                   /\ ~KeychainUnavailable) => calls[c].sent # <<>>
               /\ isArray /\ calls[c].sent # <<>> =>
                     LET blocks == SentBlocks(c, 1)
                     IN /\ blocks[1] = [type |-> "header",
                                        text |-> [type |-> "plain_text",
                                                  text |-> a.title]]
                        /\ blocks[2] = [type |-> "section",
                                        text |-> [type |-> "mrkdwn",
                                                  text |-> a.description]]
                        /\ array = <<>> => Len(blocks) = 2
                        /\ array # <<>> =>
                              /\ Len(blocks) = 3
                              /\ blocks[3].type = "actions"
                              /\ Len(blocks[3].elements) = Len(array)
                              /\ \A i \in 1..Len(array) :
                                    LET e == blocks[3].elements[i]
                                    IN /\ e.type = "button"
                                       /\ e.text = [type |-> "plain_text",
                                                    text |-> Lookup(array[i], <<"text">>)]
                                       /\ e.action_id
                                             = Lookup(array[i], <<"action_id">>)
                        /\ \A i \in 1..Len(blocks) :
                              blocks[i].type = "actions" => i = 3 /\ i = Len(blocks)

\* two buttons, sent in the order given
C11_Witness ==
    \E c \in Callers :
        /\ calls[c].tool = "send_interactive_message"
        /\ calls[c].args.buttons = JArray(<<ButtonNo, ButtonYes>>)
        /\ calls[c].sent # <<>>
        /\ Len(SentBlocks(c, 1)) = 3
        /\ SentBlocks(c, 1)[3].elements[1].action_id = PStr(<<"n">>)
        /\ SentBlocks(c, 1)[3].elements[2].action_id = PStr(<<"y">>)

\* an empty array: no actions block
C11_WitnessEmpty ==
    \E c \in Callers :
        /\ calls[c].tool = "send_interactive_message"
        /\ calls[c].args.buttons = JArray(<<>>)
        /\ calls[c].sent # <<>>
        /\ Len(SentBlocks(c, 1)) = 2

\* C12: code_block(code, language) returns a section whose mrkdwn text is the
\* opening fence, the language, one newline, the code and the closing fence
\* when a language is named; with no language (None, or the empty string,
\* which the code treats alike) the code follows the opening fence directly,
\* with no newline put in.
C12_CodeBlockFencing ==
    factory.last.fn = "code_block" =>
        LET code == factory.last.args[1]
            language == factory.last.args[2]
            named == language # PNone /\ language.s # <<>>
        IN /\ ~factory.last.raised
           /\ LET block == factory.last.result[1]
              IN /\ DOMAIN block = {"type", "text"}
                 /\ block.type = "section"
                 /\ DOMAIN block.text = {"type", "text"}
                 /\ block.text.type = "mrkdwn"
                 /\ block.text.text =
                       PStr(IF named
                            THEN Fence \o language.s \o <<"\n">> \o code.s \o Fence
                            ELSE Fence \o code.s \o Fence)

\* a block with no language was built, then one with a language
C12_Witness ==
    /\ factory.kept.fn = "code_block"
    /\ factory.kept.args = <<PStr(<<"x=1">>), PNone>>
    /\ factory.kept.result[1].text.text = PStr(Fence \o <<"x=1">> \o Fence)
    /\ factory.last.fn = "code_block"
    /\ factory.last.args = <<PStr(<<"x=1">>), PStr(<<"python">>)>>
    /\ factory.last.result[1].text.text =
          PStr(Fence \o <<"python", "\n", "x=1">> \o Fence)

\* C13: the fallback text send_code_snippet hands to the transport is the
\* title, ": ", then the first 100 characters of the code, with "..." after
\* them if and only if the code has more than 100 characters; code of
\* exactly 100 characters is there whole, with no ellipsis.
C13_SnippetFallbackText ==
    \A c \in Callers :
        calls[c].tool = "send_code_snippet" =>
            LET a == calls[c].args
                code == a.code.s
                first == [i \in 1..(IF Len(code) < 100 THEN Len(code) ELSE 100)
                            |-> code[i]]
                expected == IF Len(code) > 100
                            THEN a.title.s \o <<":", " ">> \o first \o <<".", ".", ".">>
                            ELSE a.title.s \o <<":", " ">> \o code
            IN /\ ~KeychainUnavailable => Len(calls[c].sent) = 1
               /\ \A i \in 1..Len(calls[c].sent) :
                     calls[c].sent[i].text = PStr(expected)

\* a snippet of exactly 100 characters went out whole, with no ellipsis
C13_Witness ==
    \E c \in Callers :
        /\ calls[c].tool = "send_code_snippet"
        /\ Len(calls[c].args.code.s) = 100
        /\ calls[c].sent # <<>>
        /\ calls[c].sent[1].text = PStr(<<"T", ":", " ">> \o calls[c].args.code.s)

\* a snippet of 103 characters went out cut to 100, with the ellipsis
C13_WitnessCut ==
    \E c \in Callers :
        /\ calls[c].tool = "send_code_snippet"
        /\ Len(calls[c].args.code.s) = 103
        /\ calls[c].sent # <<>>
        /\ Len(calls[c].sent[1].text.s) = 3 + 100 + 3
        /\ calls[c].sent[1].text.s[103] = "x"
        /\ calls[c].sent[1].text.s[104] = "."

\* the style asked for is exactly "primary" or "danger"
IsButtonStyle(s) == s = PStr(<<"primary">>) \/ s = PStr(<<"danger">>)

\* C14: a button has a style key if and only if the style asked for is
\* exactly "primary" or "danger" (the key then holds that style); any other
\* style, or none, gives a button with no style key and never an error.  The
\* same holds for each button send_interactive_message builds from the style
\* entry of a decoded button object.
C14_ButtonStyle ==
    /\ factory.last.fn = "button" =>
          /\ ~factory.last.raised
          /\ LET style == factory.last.args[5]
                 element == factory.last.result[1]
             IN /\ "style" \in DOMAIN element <=> IsButtonStyle(style)
                /\ "style" \in DOMAIN element => element.style = style
    /\ \A c \in Callers :
          calls[c].tool = "send_interactive_message" =>
              LET array == json_loads(calls[c].args.buttons).val.items
              IN /\ calls[c].raised # "compose"
                 /\ \A n \in 1..Len(calls[c].sent) :
                       /\ Len(SentBlocks(c, n)) = 3
                       /\ Len(SentBlocks(c, n)[3].elements) = Len(array)
                       /\ \A i \in 1..Len(array) :
                             LET style == Get(array[i], <<"style">>, PNone)
                                 element == SentBlocks(c, n)[3].elements[i]
                             IN /\ "style" \in DOMAIN element <=> IsButtonStyle(style)
                                /\ "style" \in DOMAIN element => element.style = style

\* a "danger" button was built and kept, then a "loud" one without style,
\* while the composer sent a "loud" and a "primary" button
C14_Witness ==
    /\ factory.kept.fn = "button"
    /\ factory.kept.args[5] = PStr(<<"danger">>)
    /\ factory.kept.result[1].style = PStr(<<"danger">>)
    /\ factory.last.fn = "button"
    /\ factory.last.args[5] = PStr(<<"loud">>)
    /\ "style" \notin DOMAIN factory.last.result[1]
    /\ \E c \in Callers :
          /\ calls[c].tool = "send_interactive_message"
          /\ calls[c].args.buttons = JArray(<<ButtonLink, ButtonEmptyValue>>)
          /\ calls[c].sent # <<>>
          /\ "style" \notin DOMAIN SentBlocks(c, 1)[3].elements[1]
          /\ SentBlocks(c, 1)[3].elements[2].style = PStr(<<"primary">>)

\* the keys of x that are always there, and those of opt that hold a value
\* which is given and not empty
KeysWith(always, opt) == always \cup {k \in DOMAIN opt : Truthy(opt[k])}

\* the values a button element holds under its keys, below the fixed strings
ButtonLeaves(e) ==
    {e.text.text, e.action_id}
        \cup {e[k] : k \in DOMAIN e \cap {"value", "url", "style"}}

\* the values the result of a factory call holds under its keys
Leaves(call) ==
    LET r == call.result[1]
    IN CASE call.fn \in {"header", "section", "code_block", "quote_block"} ->
                {r.text.text}
         [] call.fn = "divider" -> {}
         [] call.fn = "fields_section" ->
                {r.fields[i].text : i \in 1..Len(r.fields)}
         [] call.fn \in {"context", "rich_text_block", "rich_text_section"} ->
                {r.elements[i].text : i \in 1..Len(r.elements)}
         [] call.fn = "image" ->
                {r.image_url, r.alt_text}
                    \cup (IF "title" \in DOMAIN r THEN {r.title.text} ELSE {})
         [] call.fn = "button" -> ButtonLeaves(r)
         [] call.fn = "actions" ->
                UNION {ButtonLeaves(r.elements[i]) : i \in 1..Len(r.elements)}
         [] call.fn = "select_menu" ->
                {r.placeholder.text, r.action_id}
                    \cup {r.options[i].text.text : i \in 1..Len(r.options)}
                    \cup {r.options[i].value : i \in 1..Len(r.options)}
         [] call.fn = "section_with_accessory" ->
                {r.text.text} \cup ButtonLeaves(r.accessory)
         [] call.fn = "rich_text_list" ->
                {r.style}
                    \cup {r.elements[i].elements[1].text : i \in 1..Len(r.elements)}

\* C15: optional fields are absent, never present as null.  An image has a
\* title key if and only if a title is given and not empty; a button has a
\* value key (a url key) if and only if a value (a url) is given and not
\* empty; and no block or element the factory returns holds null under any
\* key.
C15_OptionalFieldsAbsent ==
    /\ factory.last.fn = "image" =>
          DOMAIN factory.last.result[1]
              = KeysWith({"type", "image_url", "alt_text"},
                         [title |-> factory.last.args[3]])
    /\ factory.last.fn = "button" =>
          DOMAIN factory.last.result[1] \ {"style"}
              = KeysWith({"type", "text", "action_id"},
                         [value |-> factory.last.args[3],
                          url |-> factory.last.args[4]])
    /\ factory.last.fn # "none" /\ ~factory.last.raised =>
          PNone \notin Leaves(factory.last)

\* an image built with no title and kept, then a button with an empty value
\* and a url: no title key, no value key, a url key
C15_Witness ==
    /\ factory.kept.fn = "image"
    /\ factory.kept.args[3] = PNone
    /\ DOMAIN factory.kept.result[1] = {"type", "image_url", "alt_text"}
    /\ factory.last.fn = "button"
    /\ factory.last.args[3] = PStr(<<>>)
    /\ factory.last.args[4] = PStr(<<"v">>)
    /\ DOMAIN factory.last.result[1] = {"type", "text", "action_id", "url"}

\* the mrkdwn element of a context block holding the line s
ContextLine(s) == [type |-> "mrkdwn", text |-> PStr(s)]

\* C16: send_announcement always sends exactly three blocks: a header (the
\* loudspeaker and the title), section(message) and one context block, last.
\* The context holds the author line only if an author is given (not empty),
\* before the date line, and always exactly one date line: with the timestamp
\* when one is given (not empty), with the current local time otherwise.
C16_AnnouncementBlocks ==
    \A c \in Callers :
        calls[c].tool = "send_announcement" =>
            LET a == calls[c].args
                hasAuthor == a.author # PNone /\ a.author.s # <<>>
                hasTimestamp == a.timestamp # PNone /\ a.timestamp.s # <<>>
                byLine == ContextLine(<<"*", "B", "y", ":", "*", " ">> \o a.author.s)
                dateLine ==
                    ContextLine(<<"*", "D", "a", "t", "e", ":", "*", " ">>
                                \o (IF hasTimestamp THEN a.timestamp.s ELSE a.now))
            IN /\ ~KeychainUnavailable => Len(calls[c].sent) = 1
               /\ calls[c].raised # "compose"
               /\ \A n \in 1..Len(calls[c].sent) :
                     LET blocks == SentBlocks(c, n)
                     IN /\ Len(blocks) = 3
                        /\ blocks[1] = [type |-> "header",
                                        text |-> [type |-> "plain_text",
                                                  text |-> PStr(<<"loudspeaker", " ">>
                                                                \o a.title.s)]]
                        /\ blocks[2] = [type |-> "section",
                                        text |-> [type |-> "mrkdwn",
                                                  text |-> a.message]]
                        /\ DOMAIN blocks[3] = {"type", "elements"}
                        /\ blocks[3].type = "context"
                        /\ blocks[3].elements = IF hasAuthor THEN <<byLine, dateLine>>
                                                ELSE <<dateLine>>

\* an announcement with an author and no timestamp: the author line, then
\* the date line with the time read from the clock
C16_Witness ==
    \E c \in Callers :
        /\ calls[c].tool = "send_announcement"
        /\ calls[c].args.author = PStr(<<"A">>)
        /\ calls[c].args.timestamp = PNone
        /\ calls[c].sent # <<>>
        /\ Len(SentBlocks(c, 1)[3].elements) = 2
        /\ SentBlocks(c, 1)[3].elements[2].text
              = PStr(<<"*", "D", "a", "t", "e", ":", "*", " ">> \o calls[c].args.now)

\* an announcement with no author and an empty timestamp: the date line alone
C16_WitnessNoAuthor ==
    \E c \in Callers :
        /\ calls[c].tool = "send_announcement"
        /\ calls[c].args.author = PNone
        /\ calls[c].args.timestamp = PStr(<<>>)
        /\ calls[c].sent # <<>>
        /\ Len(SentBlocks(c, 1)[3].elements) = 1

IsOptionObject(x) ==
    x.t = "dict" /\ HasKey(x, <<"text">>) /\ HasKey(x, <<"value">>)

\* C17: when select_options decodes, what send_form_message sends is exactly
\* header(title), section(description) and a section whose text is "Please
\* make your selection:" and whose accessory is a static_select with the
\* given placeholder and action_id and one option per decoded entry, in the
\* order of the input, each expanded to {text: plain_text text, value}; an
\* array of option objects always reaches the send.
C17_FormBlocks ==
    \A c \in Callers :
        calls[c].tool = "send_form_message" =>
            LET a == calls[c].args
                decoded == json_loads(a.select_options)
                entries == Iterate(decoded.val).items
            IN /\ (/\ decoded.ok /\ decoded.val.t = "list"
                   /\ \A i \in 1..Len(entries) : IsOptionObject(entries[i])
                   /\ ~KeychainUnavailable) => Len(calls[c].sent) = 1
               /\ \A n \in 1..Len(calls[c].sent) :
                     LET blocks == SentBlocks(c, n)
                     IN /\ decoded.ok
                        /\ Len(blocks) = 3
                        /\ blocks[1] = [type |-> "header",
                                        text |-> [type |-> "plain_text",
                                                  text |-> a.title]]
                        /\ blocks[2] = [type |-> "section",
                                        text |-> [type |-> "mrkdwn",
                                                  text |-> a.description]]
                        /\ DOMAIN blocks[3] = {"type", "text", "accessory"}
                        /\ blocks[3].type = "section"
                        /\ blocks[3].text =
                              [type |-> "mrkdwn",
                               text |-> PStr(<<"Please make your selection:">>)]
                        /\ DOMAIN blocks[3].accessory
                              = {"type", "placeholder", "action_id", "options"}
                        /\ blocks[3].accessory.type = "static_select"
                        /\ blocks[3].accessory.placeholder =
                              [type |-> "plain_text", text |-> a.select_placeholder]
                        /\ blocks[3].accessory.action_id = a.select_action_id
                        /\ Len(blocks[3].accessory.options) = Len(entries)
                        /\ \A i \in 1..Len(entries) :
                              blocks[3].accessory.options[i] =
                                 [text |-> [type |-> "plain_text",
                                            text |-> Lookup(entries[i], <<"text">>)],
                                  value |-> Lookup(entries[i], <<"value">>)]

\* a form with two options, sent in the order given
C17_Witness ==
    \E c \in Callers :
        /\ calls[c].tool = "send_form_message"
        /\ calls[c].args.select_options = JArray(<<Option2, Option1>>)
        /\ calls[c].sent # <<>>
        /\ Len(SentBlocks(c, 1)[3].accessory.options) = 2
        /\ SentBlocks(c, 1)[3].accessory.options[1].value = PStr(<<"opt2">>)
        /\ SentBlocks(c, 1)[3].accessory.options[2].value = PStr(<<"opt1">>)

C18_WitnessRaised ==
    /\ factory.kept.fn = "select_menu"
    /\ factory.kept.raised
    /\ factory.others
    /\ SameCall(factory.kept, factory.last)
    /\ factory.last.msg = <<"'", "value", "'">>

\* what the composer named tool does with the arguments a, run alone
Alone(tool, a) ==
    CASE tool = "send_formatted_message" -> send_formatted_message(a)
      [] tool = "send_list_message" -> send_list_message(a)
      [] tool = "send_interactive_message" -> send_interactive_message(a)
      [] tool = "send_notification_message" -> send_notification_message(a)
      [] tool = "send_code_snippet" -> send_code_snippet(a)
      [] tool = "send_form_message" -> send_form_message(a)
      [] tool = "send_announcement" -> send_announcement(a, a.now)

C20_WitnessNoSend ==
    \E c \in Callers :
        /\ calls[c].tool = "send_formatted_message"
        /\ Alone(calls[c].tool, calls[c].args).kind = "return"
        /\ calls[c].pc = "done"
        /\ calls[c].sent = <<>>

\* the tools that end in SlackClient.send_message
SendingTools == ComposerTools \cup {"send_message"}

\* C21: SlackClient.send_message posts to chat.postMessage a payload with
\* the channel and the text it was called with, the blocks exactly as it
\* received them (same blocks, same order) when blocks are given, and a
\* thread_ts key only when a thread timestamp is given; update_message posts
\* the channel, ts, text and the unchanged blocks to chat.update.  Blocks or
\* a thread timestamp that are None or empty count as not given.
C21_PayloadAsReceived ==
    \A c \in Callers :
        \A i \in 1..Len(calls[c].http) :
            LET received == calls[c].sent[i]
                request == calls[c].http[i]
                data == request.json_data
            IN /\ Len(calls[c].sent) = Len(calls[c].http)
               /\ request.method = "POST"
               /\ data.channel = received.channel
               /\ data.text = received.text
               /\ "blocks" \in DOMAIN data <=> Truthy(received.blocks)
               /\ "blocks" \in DOMAIN data => data.blocks = received.blocks
               /\ calls[c].tool \in SendingTools =>
                     /\ request.endpoint = "chat.postMessage"
                     /\ DOMAIN data \subseteq {"channel", "text", "thread_ts", "blocks"}
                     /\ "thread_ts" \in DOMAIN data <=> Truthy(received.thread_ts)
                     /\ "thread_ts" \in DOMAIN data =>
                           data.thread_ts = received.thread_ts
               /\ calls[c].tool = "update_message" =>
                     /\ request.endpoint = "chat.update"
                     /\ DOMAIN data \subseteq {"channel", "ts", "text", "blocks"}
                     /\ data.ts = received.ts

\* send_message posted two blocks in the order given, with no thread_ts key
\* for an empty thread timestamp
C21_Witness ==
    \E c \in Callers :
        /\ calls[c].tool = "send_message"
        /\ calls[c].args.blocks.tokens = JArray(<<BlockImage, BlockDivider>>)
        /\ calls[c].args.thread_ts = PStr(<<>>)
        /\ calls[c].http # <<>>
        /\ DOMAIN calls[c].http[1].json_data = {"channel", "text", "blocks"}
        /\ Len(calls[c].http[1].json_data.blocks.items) = 2
        /\ Lookup(calls[c].http[1].json_data.blocks.items[2], <<"type">>)
              = PStr(<<"divider">>)

\* update_message posted two blocks in the order given
C21_WitnessUpdate ==
    \E c \in Callers :
        /\ calls[c].tool = "update_message"
        /\ calls[c].args.blocks.tokens = JArray(<<BlockDivider, BlockImage>>)
        /\ calls[c].http # <<>>
        /\ calls[c].http[1].endpoint = "chat.update"
        /\ DOMAIN calls[c].http[1].json_data = {"channel", "ts", "text", "blocks"}
        /\ Lookup(calls[c].http[1].json_data.blocks.items[1], <<"type">>)
              = PStr(<<"divider">>)

\* C22: the send_message and update_message tools call the client with the
\* JSON-decoded value of blocks when blocks is supplied (not None and not
\* empty) and with None when it is not; when blocks is supplied but is not
\* decodable JSON the tool returns an object with an error key and the
\* client's send or update is never called.
C22_ToolsDecodeBlocks ==
    \A c \in Callers :
        calls[c].tool \in {"send_message", "update_message"} =>
            LET a == calls[c].args
                supplied == ~a.blocks.none /\ a.blocks.tokens # <<>>
                decoded == json_loads(a.blocks.tokens)
            IN /\ supplied /\ ~decoded.ok =>
                     /\ calls[c].pc = "done"
                     /\ calls[c].sent = <<>>
                     /\ calls[c].http = <<>>
                     /\ IsErrorResult(calls[c].result)
               /\ (supplied => decoded.ok) /\ ~KeychainUnavailable =>
                     Len(calls[c].sent) = 1
               /\ \A i \in 1..Len(calls[c].sent) :
                     /\ calls[c].sent[i].channel = a.channel
                     /\ calls[c].sent[i].text = a.text
                     /\ calls[c].sent[i].blocks
                           = IF supplied THEN decoded.val ELSE PNone

\* send_message was given text that is not JSON: an error, the client's
\* send_message not called
C22_Witness ==
    \E c \in Callers :
        /\ calls[c].tool = "send_message"
        /\ calls[c].args.blocks.tokens = <<TBad("not json")>>
        /\ calls[c].pc = "done"
        /\ calls[c].clients = 1
        /\ calls[c].sent = <<>>
        /\ IsErrorResult(calls[c].result)

\* update_message was given one divider block: the client got the decoded list
C22_WitnessDecoded ==
    \E c \in Callers :
        /\ calls[c].tool = "update_message"
        /\ calls[c].sent # <<>>
        /\ calls[c].sent[1].blocks
              = PList(<<PDict(<< <<"type">> >>, <<PStr(<<"divider">>)>>)>>)

\* send_message was given no blocks: the client got None
C22_WitnessNone ==
    \E c \in Callers :
        /\ calls[c].tool = "send_message"
        /\ calls[c].args.blocks.none
        /\ calls[c].sent # <<>>
        /\ calls[c].sent[1].blocks = PNone

C23_WitnessEnvironment ==
    \E c \in Callers :
        /\ platform = "darwin"
        /\ keychain["api_token"] = PNone
        /\ calls[c].http # <<>>
        /\ calls[c].http[1].token = EnvToken

\* no token anywhere: the configuration error, no request
C23_WitnessNoToken ==
    \E c \in Callers :
        /\ keychain["api_token"] = PNone
        /\ environ["SLACK_API_TOKEN"] = PNone
        /\ calls[c].sent # <<>>
        /\ calls[c].http = <<>>
        /\ calls[c].raised = "make_request"

\* the optional input x is there: not None and not the empty string
Present(x) == x # PNone /\ x.s # <<>>

\* C24: the fallback text send_formatted_message hands to the transport is
\* the title when the title is present, otherwise the text when the text is
\* present, otherwise the placeholder "Formatted message" (only fields or
\* context supplied).
C24_FormattedFallbackText ==
    \A c \in Callers :
        calls[c].tool = "send_formatted_message" =>
            \A i \in 1..Len(calls[c].sent) :
                LET a == calls[c].args
                IN calls[c].sent[i].text =
                      IF Present(a.title) THEN a.title
                      ELSE IF Present(a.text) THEN a.text
                      ELSE PStr(<<"Formatted message">>)

\* only fields supplied: the placeholder
C24_Witness ==
    \E c \in Callers :
        /\ calls[c].tool = "send_formatted_message"
        /\ calls[c].args.title = PNone
        /\ calls[c].args.text = PStr(<<>>)
        /\ calls[c].args.fields = PStr(<<"a">>)
        /\ calls[c].sent # <<>>
        /\ calls[c].sent[1].text = PStr(<<"Formatted message">>)

\* title and text supplied: the title
C24_WitnessTitle ==
    \E c \in Callers :
        /\ calls[c].tool = "send_formatted_message"
        /\ calls[c].args.title = PStr(<<"T">>)
        /\ calls[c].args.text = PStr(<<"x">>)
        /\ calls[c].sent # <<>>
        /\ calls[c].sent[1].text = PStr(<<"T">>)

\* C25: send_interactive_message returns an error result and sends nothing
\* whenever buttons does not decode to an array of objects that each hold
\* both text and action_id: a decoded value that is not an array, or an
\* entry without a required key, is a validation failure, not a message
\* sent without buttons.
C25_MalformedButtonsRejected ==
    \A c \in Callers :
        calls[c].tool = "send_interactive_message" =>
            LET decoded == json_loads(calls[c].args.buttons)
                wellFormed ==
                    /\ decoded.ok
                    /\ decoded.val.t = "list"
                    /\ \A i \in 1..Len(decoded.val.items) :
                          IsButtonObject(decoded.val.items[i])
            IN ~wellFormed =>
                  /\ calls[c].pc = "done"
                  /\ calls[c].sent = <<>>
                  /\ calls[c].http = <<>>
                  /\ IsErrorResult(calls[c].result)

\* buttons decoded to an empty JSON object, and a message went out with the
\* header and the section alone
C25_SentWithoutButtons ==
    \E c \in Callers :
        /\ calls[c].tool = "send_interactive_message"
        /\ calls[c].args.buttons = JObject(<<>>)
        /\ calls[c].sent # <<>>
        /\ Len(SentBlocks(c, 1)) = 2

\* the positions of the commas of s
CommasOf(s) == {i \in 1..Len(s) : s[i] = ","}

\* the k-th of the pieces the commas cut s into: what lies between the
\* comma before it (or the start) and the comma after it (or the end)
PieceOf(s, k) ==
    LET nth(j) == CHOOSE i \in CommasOf(s) :
                      Cardinality({h \in CommasOf(s) : h <= i}) = j
        from == IF k = 1 THEN 1 ELSE nth(k - 1) + 1
        to == IF k = Cardinality(CommasOf(s)) + 1 THEN Len(s) ELSE nth(k) - 1
    IN SubSeq(s, from, to)

\* C26: when fields is present, the fields section send_formatted_message
\* sends holds exactly the comma-separated pieces of the fields string, each
\* trimmed, in the order of the input: one mrkdwn entry per piece, so as many
\* entries as commas plus one, with no piece dropped or merged.
C26_FieldsPieces ==
    \A c \in Callers :
        calls[c].tool = "send_formatted_message" =>
            \A n \in 1..Len(calls[c].sent) :
                LET a == calls[c].args
                    blocks == SentBlocks(c, n)
                    at == {i \in 1..Len(blocks) : "fields" \in DOMAIN blocks[i]}
                IN /\ Present(a.fields) <=> at # {}
                   /\ Cardinality(at) <= 1
                   /\ \A i \in at :
                         /\ blocks[i].type = "section"
                         /\ Len(blocks[i].fields) = Cardinality(CommasOf(a.fields.s)) + 1
                         /\ \A k \in 1..Len(blocks[i].fields) :
                               blocks[i].fields[k] =
                                  [type |-> "mrkdwn",
                                   text |-> PStr(strip(PieceOf(a.fields.s, k)))]

\* three pieces, the middle one empty, all three sent in order
C26_Witness ==
    \E c \in Callers :
        /\ calls[c].tool = "send_formatted_message"
        /\ calls[c].args.fields = PStr(<<"b", ",", ",", "a">>)
        /\ calls[c].args.title = PNone /\ calls[c].args.text = PNone
        /\ calls[c].sent # <<>>
        /\ SentBlocks(c, 1)[1].fields =
              <<[type |-> "mrkdwn", text |-> PStr(<<"b">>)],
                [type |-> "mrkdwn", text |-> PStr(<<>>)],
                [type |-> "mrkdwn", text |-> PStr(<<"a">>)]>>

\* pieces with blanks around them, sent trimmed
C26_WitnessTrimmed ==
    \E c \in Callers :
        /\ calls[c].tool = "send_formatted_message"
        /\ calls[c].args.fields = PStr(<<"a", ",", " ", "b", " ", ",", "c">>)
        /\ calls[c].args.title = PNone /\ calls[c].args.text = PNone
        /\ calls[c].sent # <<>>
        /\ SentBlocks(c, 1)[1].fields =
              <<[type |-> "mrkdwn", text |-> PStr(<<"a">>)],
                [type |-> "mrkdwn", text |-> PStr(<<"b">>)],
                [type |-> "mrkdwn", text |-> PStr(<<"c">>)]>>

\* the parameters of a composer declared Optional[str] = None
OptionalInputs(tool) ==
    {"thread_ts"} \cup
    CASE tool = "send_formatted_message" -> {"title", "text", "fields", "context"}
      [] tool = "send_notification_message" -> {"details"}
      [] tool = "send_list_message" -> {"description"}
      [] tool = "send_code_snippet" -> {"language", "description"}
      [] tool = "send_announcement" -> {"author", "timestamp"}
      [] OTHER -> {}

\* the arguments a with every optional input that is the empty string left
\* out (None)
EmptyAsAbsent(tool, a) ==
    [k \in DOMAIN a |->
        IF k \in OptionalInputs(tool) /\ a[k] = PStr(<<>>) THEN PNone ELSE a[k]]

\* C27: in every composer an optional input given as the empty string is
\* treated exactly like an absent one.  What a call builds, returns and
\* hands to the transport is what the same call does with its empty optional
\* inputs left out: the same blocks, the same fallback text, the same
\* request payload, and for send_formatted_message with nothing but empty
\* strings the same validation error.
C27_EmptyLikeAbsent ==
    \A c \in Callers :
        calls[c].tool \in ComposerTools =>
            LET absent == Alone(calls[c].tool,
                                EmptyAsAbsent(calls[c].tool, calls[c].args))
            IN /\ calls[c].blocks = absent.blocks
               /\ absent.kind = "return" =>
                     /\ calls[c].pc = "done"
                     /\ calls[c].sent = <<>>
                     /\ calls[c].result = json_dumps(absent.value)
               /\ absent.kind = "raise" =>
                     /\ calls[c].sent = <<>>
                     /\ calls[c].result = ErrorResult(absent.msg)
               /\ absent.kind = "send" /\ ~KeychainUnavailable =>
                     Len(calls[c].sent) = 1
               /\ \A i \in 1..Len(calls[c].sent) :
                     /\ absent.kind = "send"
                     /\ calls[c].sent[i].text = absent.text
                     /\ calls[c].sent[i].blocks = PList(absent.blocks)
               /\ \A i \in 1..Len(calls[c].http) :
                     calls[c].http[i].json_data
                        = SlackClient_send_message(absent.channel, absent.text,
                                                   absent.thread_ts,
                                                   PList(absent.blocks)).json_data

\* send_formatted_message with four empty strings: the validation error
C27_Witness ==
    \E c \in Callers :
        /\ calls[c].tool = "send_formatted_message"
        /\ calls[c].args.title = PStr(<<>>) /\ calls[c].args.text = PStr(<<>>)
        /\ calls[c].args.fields = PStr(<<>>) /\ calls[c].args.context = PStr(<<>>)
        /\ calls[c].pc = "done"
        /\ calls[c].sent = <<>>
        /\ calls[c].result = ErrorResult(NoContentMsg)

\* a code snippet with empty language, description and thread timestamp: the
\* header and the code block with no newline after the fence, no thread_ts
C27_WitnessSnippet ==
    \E c \in Callers :
        /\ calls[c].tool = "send_code_snippet"
        /\ calls[c].args.language = PStr(<<>>)
        /\ calls[c].args.description = PStr(<<>>)
        /\ calls[c].args.thread_ts = PStr(<<>>)
        /\ calls[c].args.code = PStr(<<"x">>)
        /\ calls[c].http # <<>>
        /\ Len(SentBlocks(c, 1)) = 2
        /\ SentBlocks(c, 1)[2].text.text = PStr(Fence \o <<"x">> \o Fence)
        /\ "thread_ts" \notin DOMAIN calls[c].http[1].json_data

\* the characters str.strip removes that an items string is made of here
IsBlank(ch) == ch \in {" ", "\n"}

\* no item survives the trimming of items: split on newlines when it has
\* one, every line is blank; otherwise every piece between commas is blank
NoItemSurvives(s) ==
    IF \E i \in 1..Len(s) : s[i] = "\n"
    THEN \A i \in 1..Len(s) : IsBlank(s[i])
    ELSE \A i \in 1..Len(s) : s[i] \in {" ", ","}

\* C28: send_list_message never fails validation on its items.  No call of
\* it ends in an error before the send, and when no item survives trimming
\* (items empty, only whitespace, or only separators of the kind it is split
\* on) it still invokes the transport, the list section, last of the blocks,
\* having the empty string as its text and the fallback text being the title
\* followed by ": ".
C28_EmptyListStillSent ==
    \A c \in Callers :
        calls[c].tool = "send_list_message" =>
            LET a == calls[c].args
            IN /\ calls[c].raised \notin {"compose"}
               /\ ~KeychainUnavailable =>
                     Len(calls[c].sent) = 1
               /\ NoItemSurvives(a.items.s) /\ calls[c].sent # <<>> =>
                     LET blocks == SentBlocks(c, 1)
                     IN /\ blocks[Len(blocks)]
                             = [type |-> "section",
                                text |-> [type |-> "mrkdwn",
                                          text |-> PStr(<<>>)]]
                        /\ calls[c].sent[1].text
                             = PStr(a.title.s \o <<":", " ">>)

\* items is the empty string and the message went out
C28_Witness ==
    \E c \in Callers :
        /\ calls[c].tool = "send_list_message"
        /\ calls[c].args.items = PStr(<<>>)
        /\ calls[c].http # <<>>
        /\ calls[c].sent[1].text = PStr(<<"T", ":", " ">>)

\* items is only whitespace
C28_WitnessBlank ==
    \E c \in Callers :
        /\ calls[c].tool = "send_list_message"
        /\ calls[c].args.items = PStr(<<" ", "\n", " ">>)
        /\ calls[c].http # <<>>
        /\ SentBlocks(c, 1)[2].text.text = PStr(<<>>)

\* items is only separators
C28_WitnessSeparators ==
    \E c \in Callers :
        /\ calls[c].tool = "send_list_message"
        /\ calls[c].args.items = PStr(<<",", " ", ",">>)
        /\ calls[c].http # <<>>
        /\ SentBlocks(c, 1)[2].text.text = PStr(<<>>)

\* C29: in the setup program, once the user has chosen "Delete all" and
\* confirmed, and every deletion it made succeeded, none of the credentials
\* the server reads (api_token, workspace_id, app_token, signing_secret)
\* remains in the secret store.
C29_DeleteAllLeavesNone ==
    setup.last.fn = "delete_all" /\ setup.last.ok =>
        \A key \in CredentialKeys : keychain[key] = PNone

\* after a confirmed "Delete all" whose deletions all succeeded the three
\* listed keys are gone and the signing secret is still in the store
C29_SigningSecretRemains ==
    /\ setup.last.fn = "delete_all" /\ setup.last.ok
    /\ setup.pc = "continue"
    /\ \A key \in {"api_token", "workspace_id", "app_token"} :
          keychain[key] = PNone
    /\ keychain["signing_secret"] # PNone

\* the token text t passes the format check: prefix xoxb- or xoxp- and at
\* least 50 characters, or prefix xapp- and at least 100
PassesTokenCheck(t) ==
    \/ /\ Len(t) >= 50
       /\ SubSeq(t, 1, 5) \in {<<"x", "o", "x", "b", "-">>,
                               <<"x", "o", "x", "p", "-">>}
    \/ /\ Len(t) >= 100
       /\ SubSeq(t, 1, 5) = <<"x", "a", "p", "p", "-">>

\* the positions inside setup_api_token, and those of the steps after it
InApiToken == {"api_token", "skip", "retry"}
LaterSteps ==
    {"workspace_id", "app_choice", "app_token", "secret_choice", "signing_secret"}

\* a step writes api_token or app_token only with a text that passes
WritesOnlyChecked ==
    \A key \in {"api_token", "app_token"} :
        keychain'[key] # keychain[key] /\ keychain'[key] # PNone =>
            PassesTokenCheck(keychain'[key].s)

\* setup_api_token returns True only in the step that stored a passing token
TrueOnlyAfterStore ==
    /\ setup.pc \in InApiToken
    /\ setup'.pc \notin InApiToken \cup {"exited"}
    /\ setup'.token_success = "True"
    => /\ setup'.last.fn = "store_credential"
       /\ setup'.last.key = "api_token"
       /\ setup'.last.ok
       /\ PassesTokenCheck(setup'.last.value)
       /\ keychain'["api_token"] = PStr(setup'.last.value)
       /\ keychain'["api_token"] # keychain["api_token"]
             \/ keychain["api_token"] = PStr(setup'.last.value)

\* the later steps of "Set up new credentials" run only after True
LaterOnlyAfterTrue ==
    /\ setup.pc \in LaterSteps =>
          setup.choice = "1" /\ setup.token_success = "True"
    /\ setup.choice = "1"
          /\ (\E i \in 1..Len(setup.ran) :
                 setup.ran[i] \in {"setup_workspace_id",
                                   "setup_additional_credentials",
                                   "verify_setup"})
          => /\ setup.token_success = "True"
             /\ keychain["api_token"] # PNone
             /\ PassesTokenCheck(keychain["api_token"].s)

\* C30: across any sequence of user inputs to the setup program, api_token
\* and app_token are written to the secret store only with a text that
\* passes validate_slack_token (xoxb-/xoxp- and at least 50 characters, or
\* xapp- and at least 100); setup_api_token returns True only in the step
\* that stored such a token; and the workspace-id, additional-credential and
\* verification steps of "Set up new credentials" run only after it returned
\* True.
C30_ValidatedBeforeStored ==
    /\ []LaterOnlyAfterTrue
    /\ [][WritesOnlyChecked /\ TrueOnlyAfterStore]_vars

\* a passing api token was typed with blanks around it, stored stripped, and
\* the workspace-id step is next
C30_Witness ==
    /\ setup.pc = "workspace_id"
    /\ setup.token_success = "True"
    /\ setup.last = StoreCall("store_credential", "api_token",
                              Token(<<"o", "x", "p">>, BotMinLen), TRUE)
    /\ keychain["api_token"] = PStr(Token(<<"o", "x", "p">>, BotMinLen))

\* a token one character short was refused: nothing written, "Try again?"
C30_WitnessRefused ==
    /\ setup.pc = "retry"
    /\ \A key \in CredentialKeys : keychain[key] = PNone

\* an app token of 100 characters was stored by the additional step
C30_WitnessAppToken ==
    /\ setup.pc = "secret_choice"
    /\ setup.last = StoreCall("store_credential", "app_token",
                              Token(<<"a", "p", "p">>, AppMinLen), TRUE)
    /\ keychain["app_token"] = PStr(Token(<<"a", "p", "p">>, AppMinLen))

\* the store failed for a passing token: setup_api_token returned False and
\* no later step ran
C30_WitnessStoreFailed ==
    /\ setup.pc = "continue"
    /\ setup.choice = "1"
    /\ setup.token_success = "False"
    /\ setup.last.fn = "store_credential" /\ ~setup.last.ok
    /\ setup.ran = <<"setup_api_token">>

====
